---- MODULE Spec2Model ----
(***************************************************************************)
(* Break-booking bot: slot catalog, booking ledger and their handlers, in  *)
(* the two revisions of the repository.                                    *)
(*   rev = "bot"         src/bot.py        (status column, soft cancel)    *)
(*   rev = "bot_server"  src/bot_server.py (row existence, hard delete)    *)
(* The SQLite tables are sets of rows; an AUTOINCREMENT key is the row's   *)
(* id field together with the table's sqlite_sequence counter.             *)
(* Text values are sequences of one-character strings.                     *)
(***************************************************************************)
EXTENDS Integers, Sequences, FiniteSets, TLC

VARIABLES
    rev,          \* which program is running
    users,        \* table users
    time_slots,   \* table time_slots (bot.py)
    slots,        \* table slots (bot_server.py)
    slot_seq,     \* sqlite_sequence of the slot table
    bookings,     \* table bookings
    booking_seq,  \* sqlite_sequence of bookings
    init_runs,    \* how many times init_db has run on this database file
    gen,          \* init_db in progress: the slot loop's position and date
    ret,          \* the last call and what it returned
    pc,           \* concurrent book_slot callers: position in book_slot
    loc,          \* concurrent book_slot callers: local variables
    is_running,   \* KeepAliveSystem.is_running
    ping_count,   \* KeepAliveSystem.ping_count
    ping_thread,  \* KeepAliveSystem.ping_thread: the thread started last
    loop,         \* the _ping_loop threads: position of each in the loop
    caller        \* the caller of start() / stop(): position in stop()

\* the fields of keep_alive_system and its threads
kavars == <<is_running, ping_count, ping_thread, loop, caller>>

vars == <<rev, users, time_slots, slots, slot_seq, bookings, booking_seq,
          init_runs, gen, ret, pc, loc, kavars>>

(* ------------------------------ bounds --------------------------------- *)
MaxUsers == 4         \* telegram accounts that talk to the bot
MaxSlotInput == 1     \* callback data names slot ids 0..MaxSlotInput
MaxBookingId == 4     \* INSERTs into bookings per run
MaxInitDb == 2        \* runs of init_db on one database file
NumCallers == 4       \* overlapping book_slot calls (capacity + k)
ViewUsers == 2        \* accounts that book while the queries are observed
ViewSlots == 2        \* slots they book
ViewBookings == 3     \* INSERTs into bookings while the queries are observed
NewAccounts == 4      \* accounts that ask to register near the user limit
MaxThreads == 3       \* _ping_loop threads that start() creates
MaxPings == 2         \* pings after which a loop makes no further round

(* --------------------------- program constants ------------------------- *)
MAX_PEOPLE_PER_SLOT == 3
DEFAULT_MAX_PEOPLE == 3

(* ------------------------------- text ---------------------------------- *)
Digits == <<"0", "1", "2", "3", "4", "5", "6", "7", "8", "9">>

IsDigit(c) == \E d \in 1..10 : Digits[d] = c

\* the number a decimal digit character stands for
DigitValue(c) == (CHOOSE d \in 1..10 : Digits[d] = c) - 1

\* f"{n:02d}" for 0 <= n <= 99
Fmt02(n) == <<Digits[(n \div 10) + 1], Digits[(n % 10) + 1]>>

\* the display name registered for account i
FullName(i) == <<"U">> \o Fmt02(i)

\* the telegram id of account i (distinct from every users.user_id)
TelegramId(i) == 100 + i

TelegramIds == {TelegramId(i) : i \in 1..MaxUsers}

AccountOf(tg) == tg - 100

(* ---------------------------- slot catalog ----------------------------- *)
\* the end hour without the wrap at midnight
SlotTimeNoWrap(hour, minute) ==
    LET end_hour == IF minute < 45 THEN hour ELSE hour + 1
        end_minute == (minute + 15) % 60
    IN  Fmt02(hour) \o <<":">> \o Fmt02(minute) \o <<"-">>
            \o Fmt02(end_hour) \o <<":">> \o Fmt02(end_minute)

\* bot.py: slot_time of the window that starts at hour:minute
SlotTime(hour, minute) ==
    LET end_hour == IF minute < 45 THEN hour ELSE (hour + 1) % 24
        end_minute == (minute + 15) % 60
    IN  Fmt02(hour) \o <<":">> \o Fmt02(minute) \o <<"-">>
            \o Fmt02(end_hour) \o <<":">> \o Fmt02(end_minute)

\* the end minute wraps but the end hour is not carried
TimeRangeNoCarry(hour, minute) ==
    LET end_minute == (minute + 15) % 60
    IN  Fmt02(hour) \o <<":">> \o Fmt02(minute) \o <<"-">>
            \o Fmt02(hour) \o <<":">> \o Fmt02(end_minute)

\* bot_server.py: time_range of the window that starts at hour:minute
TimeRange(hour, minute) ==
    LET end_minute0 == minute + 15
        end_hour == IF end_minute0 >= 60 THEN hour + 1 ELSE hour
        end_minute == IF end_minute0 >= 60 THEN end_minute0 - 60 ELSE end_minute0
    IN  Fmt02(hour) \o <<":">> \o Fmt02(minute) \o <<"-">>
            \o Fmt02(end_hour) \o <<":">> \o Fmt02(end_minute)

\* a plain INSERT into a table without the UNIQUE column
InsertTimeSlotAlways(db, slot_time, date, max_people) ==
    [rows |-> db.rows \cup {[id |-> db.seq + 1, slot_time |-> slot_time,
                              date |-> date, max_people |-> max_people]},
     seq |-> db.seq + 1]

\* INSERT OR IGNORE INTO time_slots (slot_time, date, max_people): the UNIQUE
\* column is slot_time alone; an ignored insert still advances sqlite_sequence
InsertOrIgnoreTimeSlot(db, slot_time, date, max_people) ==
    IF \E r \in db.rows : r.slot_time = slot_time
    THEN [rows |-> db.rows, seq |-> db.seq + 1]
    ELSE [rows |-> db.rows \cup {[id |-> db.seq + 1, slot_time |-> slot_time,
                                  date |-> date, max_people |-> max_people]},
          seq |-> db.seq + 1]

\* INSERT OR IGNORE INTO slots (time_range): max_people takes the column default
InsertOrIgnoreSlot(db, time_range) ==
    IF \E r \in db.rows : r.time_range = time_range
    THEN [rows |-> db.rows, seq |-> db.seq + 1]
    ELSE [rows |-> db.rows \cup {[slot_id |-> db.seq + 1, time_range |-> time_range,
                                  max_people |-> DEFAULT_MAX_PEOPLE]},
          seq |-> db.seq + 1]

\* bot.py: for hour in range(24): for minute in [0, 15, 30, 45]; iteration i
\* (0-based) of the loop body
GenerateStep(db, i, date) ==
    InsertOrIgnoreTimeSlot(db, SlotTime(i \div 4, 15 * (i % 4)), date,
                           MAX_PEOPLE_PER_SLOT)

GenerateIterations == 24 * 4

\* bot_server.py: for hour in range(8, 20): for minute in [0, 15, 30, 45];
\* iteration i (0-based): the i-th time_range is built and inserted
InitDbStep(db, i) ==
    InsertOrIgnoreSlot(db, TimeRange(8 + (i \div 4), 15 * (i % 4)))

InitDbIterations == (20 - 8) * 4

\* the table time_slots after generate_slots_for_date(date) on an empty table
BotCatalog(date) ==
    {[id |-> i + 1, slot_time |-> SlotTime(i \div 4, 15 * (i % 4)), date |-> date,
      max_people |-> MAX_PEOPLE_PER_SLOT] : i \in 0..(GenerateIterations - 1)}

\* the table slots after init_db on an empty table
SrvCatalog ==
    {[slot_id |-> i + 1, time_range |-> TimeRange(8 + (i \div 4), 15 * (i % 4)),
      max_people |-> DEFAULT_MAX_PEOPLE] : i \in 0..(InitDbIterations - 1)}

\* the calendar days on which the process may be started
Dates == {1, 2}


(* ------------------------------- users --------------------------------- *)
None == 0           \* Python None where a row id is expected (ids start at 1)
NoText == <<>>      \* Python None / empty text
USER_LIMIT == 50

MaxOf(S) == IF S = {} THEN 0 ELSE CHOOSE m \in S : \A x \in S : x <= m

\* rowid of a new users row (users rows are never deleted)
NextUserId(us) == MaxOf({u.user_id : u \in us}) + 1

\* bot.py get_user_fio
get_user_fio(us, telegram_id) ==
    IF \E u \in us : u.telegram_id = telegram_id
    THEN (CHOOSE u \in us : u.telegram_id = telegram_id).full_name
    ELSE NoText

\* an extra write in the lookup: the account is created when it is missing
BotGetOrCreateUserAlways(us, telegram_id, full_name) ==
    IF \E u \in us : u.telegram_id = telegram_id
    THEN [users |-> us,
          user_id |-> (CHOOSE u \in us : u.telegram_id = telegram_id).user_id]
    ELSE [users |-> us \cup {[user_id |-> NextUserId(us),
                              telegram_id |-> telegram_id,
                              full_name |-> full_name]},
          user_id |-> NextUserId(us)]

\* the limit test off by one: a 51st user gets in
BotGetOrCreateUserOverLimit(us, telegram_id, full_name) ==
    IF \E u \in us : u.telegram_id = telegram_id
    THEN LET user == CHOOSE u \in us : u.telegram_id = telegram_id
         IN  IF full_name # NoText /\ user.full_name # full_name
             THEN [users |-> (us \ {user}) \cup {[user EXCEPT !.full_name = full_name]},
                   user_id |-> user.user_id]
             ELSE [users |-> us, user_id |-> user.user_id]
    ELSE IF full_name # NoText
         THEN IF Cardinality(us) > USER_LIMIT
              THEN [users |-> us, user_id |-> None]
              ELSE [users |-> us \cup {[user_id |-> NextUserId(us),
                                        telegram_id |-> telegram_id,
                                        full_name |-> full_name]},
                    user_id |-> NextUserId(us)]
         ELSE [users |-> us, user_id |-> None]

\* bot.py get_or_create_user(telegram_id, username, full_name=None)
BotGetOrCreateUser(us, telegram_id, full_name) ==
    IF \E u \in us : u.telegram_id = telegram_id
    THEN LET user == CHOOSE u \in us : u.telegram_id = telegram_id
         IN  IF full_name # NoText /\ user.full_name # full_name
             THEN [users |-> (us \ {user}) \cup {[user EXCEPT !.full_name = full_name]},
                   user_id |-> user.user_id]
             ELSE [users |-> us, user_id |-> user.user_id]
    ELSE IF full_name # NoText
         THEN IF Cardinality(us) >= USER_LIMIT
              THEN [users |-> us, user_id |-> None]
              ELSE [users |-> us \cup {[user_id |-> NextUserId(us),
                                        telegram_id |-> telegram_id,
                                        full_name |-> full_name]},
                    user_id |-> NextUserId(us)]
         ELSE [users |-> us, user_id |-> None]

\* bot_server.py get_or_create_user(telegram_id, username, full_name)
SrvGetOrCreateUser(us, telegram_id, full_name) ==
    IF \E u \in us : u.telegram_id = telegram_id
    THEN [users |-> us,
          user_id |-> (CHOOSE u \in us : u.telegram_id = telegram_id).user_id]
    ELSE [users |-> us \cup {[user_id |-> NextUserId(us),
                              telegram_id |-> telegram_id,
                              full_name |-> full_name]},
          user_id |-> NextUserId(us)]

\* the users table after accounts 1..n have registered, in that order
RECURSIVE RegisteredUsers(_)
RegisteredUsers(n) ==
    IF n = 0 THEN {}
    ELSE RegisteredUsers(n - 1) \cup {[user_id |-> n, telegram_id |-> TelegramId(n),
                                       full_name |-> FullName(n)]}

(* --------------------------- booking ledger ---------------------------- *)
\* result tags (the literal replies of the source are in the comments)
SLOT_FULL == "SlotFull"              \* "Слот полностью занят"
ALREADY_BOOKED == "AlreadyBooked"    \* "Вы уже записаны на этот слот"
NOT_FOUND == "NotFound"              \* "Запись не найдена"
NOT_OWNER == "NotOwner"              \* "Вы можете отменять только свои записи"
CANCELLED == "Cancelled"             \* "Запись на {time_range} отменена"
NOT_REGISTERED == "NotRegistered"    \* "Сначала зарегистрируйтесь!"
TYPE_ERROR == "TypeError"            \* fetchone()[0] on no row
NO_MSG == "None"

\* SELECT COUNT(*) FROM bookings WHERE slot_id = ? AND status = "active"
BotBookedCount(bk, slot_id) ==
    Cardinality({b \in bk : b.slot_id = slot_id /\ b.status = "active"})

\* SELECT COUNT(*) FROM bookings WHERE slot_id = ?
SrvBookedCount(bk, slot_id) ==
    Cardinality({b \in bk : b.slot_id = slot_id})

BotSlotExists(slot_id) == \E r \in time_slots : r.id = slot_id
SrvSlotExists(slot_id) == \E r \in slots : r.slot_id = slot_id

\* SELECT max_people FROM time_slots WHERE id = ?   (of an existing slot)
BotMaxPeople(slot_id) == (CHOOSE r \in time_slots : r.id = slot_id).max_people
\* SELECT max_people FROM slots WHERE slot_id = ?
SrvMaxPeople(slot_id) == (CHOOSE r \in slots : r.slot_id = slot_id).max_people

\* the capacity test off by one
IsFullOffByOne(booked_count, max_people) == booked_count > max_people

\* if booked_count >= max_people
IsFull(booked_count, max_people) == booked_count >= max_people

\* the duplicate check finds nothing (the check is missing)
HasActiveBookingNever(bk, user_id, slot_id) == FALSE

\* SELECT * FROM bookings WHERE user_id = ? AND slot_id = ? AND status = "active"
HasActiveBooking(bk, user_id, slot_id) ==
    \E b \in bk : b.user_id = user_id /\ b.slot_id = slot_id /\ b.status = "active"

\* a cancelled row of the same user and slot is set back to active instead of
\* a new row being inserted
BotReactivateBooking(bk, seq, user_id, slot_id) ==
    IF \E b \in bk : b.user_id = user_id /\ b.slot_id = slot_id
    THEN {IF b.user_id = user_id /\ b.slot_id = slot_id
          THEN [b EXCEPT !.status = "active"] ELSE b : b \in bk}
    ELSE bk \cup {[id |-> seq + 1, user_id |-> user_id, slot_id |-> slot_id,
                   status |-> "active"]}

\* bot.py: INSERT INTO bookings (user_id, slot_id); status takes its default
BotInsertBooking(bk, seq, user_id, slot_id) ==
    bk \cup {[id |-> seq + 1, user_id |-> user_id, slot_id |-> slot_id,
              status |-> "active"]}

\* bot_server.py: INSERT INTO bookings (user_id, slot_id)
SrvInsertBooking(bk, seq, user_id, slot_id) ==
    bk \cup {[booking_id |-> seq + 1, user_id |-> user_id, slot_id |-> slot_id]}

\* the names of the others who ever booked the slot, cancelled or not
OtherUsersAnyStatus(bk, us, user_id, slot_id) ==
    {u.full_name : u \in {x \in us : \E b \in bk :
        b.user_id = x.user_id /\ b.slot_id = slot_id /\ b.user_id # user_id}}

\* bot.py: the names of the other active holders of the slot
OtherUsers(bk, us, user_id, slot_id) ==
    {u.full_name : u \in {x \in us : \E b \in bk :
        b.user_id = x.user_id /\ b.slot_id = slot_id /\ b.status = "active"
        /\ b.user_id # user_id}}

\* what a call returned: ok/msg are the returned flag and reason, text the
\* returned slot text, names the returned holder names
Ret(op, ok, msg, text, names) ==
    [op |-> op, ok |-> ok, msg |-> msg, text |-> text, names |-> names]

\* book_slot with the duplicate check ahead of the capacity check
BotBookSlotDuplicateFirst(bk, seq, us, user_id, slot_id) ==
    IF ~BotSlotExists(slot_id)
    THEN [bookings |-> bk, seq |-> seq,
          ret |-> Ret("book_slot", FALSE, TYPE_ERROR, NoText, {})]
    ELSE IF HasActiveBooking(bk, user_id, slot_id)
    THEN [bookings |-> bk, seq |-> seq,
          ret |-> Ret("book_slot", FALSE, ALREADY_BOOKED, NoText, {})]
    ELSE IF IsFull(BotBookedCount(bk, slot_id), BotMaxPeople(slot_id))
    THEN [bookings |-> bk, seq |-> seq,
          ret |-> Ret("book_slot", FALSE, SLOT_FULL, NoText, {})]
    ELSE LET bk2 == BotInsertBooking(bk, seq, user_id, slot_id)
         IN  [bookings |-> bk2, seq |-> seq + 1,
              ret |-> Ret("book_slot", TRUE, NO_MSG,
                          (CHOOSE r \in time_slots : r.id = slot_id).slot_time,
                          OtherUsers(bk2, us, user_id, slot_id))]

\* bot.py book_slot(user_id, slot_id): the database after the call and its result
BotBookSlot(bk, seq, us, user_id, slot_id) ==
    IF ~BotSlotExists(slot_id)
    THEN [bookings |-> bk, seq |-> seq,
          ret |-> Ret("book_slot", FALSE, TYPE_ERROR, NoText, {})]
    ELSE IF IsFull(BotBookedCount(bk, slot_id), BotMaxPeople(slot_id))
    THEN [bookings |-> bk, seq |-> seq,
          ret |-> Ret("book_slot", FALSE, SLOT_FULL, NoText, {})]
    ELSE IF HasActiveBooking(bk, user_id, slot_id)
    THEN [bookings |-> bk, seq |-> seq,
          ret |-> Ret("book_slot", FALSE, ALREADY_BOOKED, NoText, {})]
    ELSE LET bk2 == BotInsertBooking(bk, seq, user_id, slot_id)
         IN  [bookings |-> bk2, seq |-> seq + 1,
              ret |-> Ret("book_slot", TRUE, NO_MSG,
                          (CHOOSE r \in time_slots : r.id = slot_id).slot_time,
                          OtherUsers(bk2, us, user_id, slot_id))]

\* bot_server.py book_slot(user_id, slot_id): returns a bare True / False
SrvBookSlot(bk, seq, user_id, slot_id) ==
    IF ~SrvSlotExists(slot_id)
    THEN [bookings |-> bk, seq |-> seq,
          ret |-> Ret("book_slot", FALSE, NO_MSG, NoText, {})]
    ELSE IF IsFull(SrvBookedCount(bk, slot_id), SrvMaxPeople(slot_id))
    THEN [bookings |-> bk, seq |-> seq,
          ret |-> Ret("book_slot", FALSE, NO_MSG, NoText, {})]
    ELSE [bookings |-> SrvInsertBooking(bk, seq, user_id, slot_id), seq |-> seq + 1,
          ret |-> Ret("book_slot", TRUE, NO_MSG, NoText, {})]

\* the UPDATE without its user_id condition
BotCancelUpdateWholeSlot(bk, user_id, slot_id) ==
    {IF b.slot_id = slot_id /\ b.status = "active"
     THEN [b EXCEPT !.status = "cancelled"] ELSE b : b \in bk}

\* bot.py: UPDATE bookings SET status = "cancelled"
\*         WHERE user_id = ? AND slot_id = ? AND status = "active"
BotCancelUpdate(bk, user_id, slot_id) ==
    {IF b.user_id = user_id /\ b.slot_id = slot_id /\ b.status = "active"
     THEN [b EXCEPT !.status = "cancelled"] ELSE b : b \in bk}

\* c.rowcount of that UPDATE
BotCancelRowCount(bk, user_id, slot_id) ==
    Cardinality({b \in bk : b.user_id = user_id /\ b.slot_id = slot_id
                              /\ b.status = "active"})

\* bot.py cancel_booking(user_id, slot_id)
BotCancelBooking(bk, user_id, slot_id) ==
    IF BotCancelRowCount(bk, user_id, slot_id) > 0
    THEN [bookings |-> BotCancelUpdate(bk, user_id, slot_id),
          ret |-> Ret("cancel_booking", TRUE, NO_MSG,
                      (CHOOSE r \in time_slots : r.id = slot_id).slot_time, {})]
    ELSE [bookings |-> bk,
          ret |-> Ret("cancel_booking", FALSE, NO_MSG, NoText, {})]

\* bot_server.py: the owner check  if owner_telegram_id != telegram_id
IsNotOwner(owner_telegram_id, telegram_id) == owner_telegram_id # telegram_id

\* the DELETE is not executed
SrvDeleteNothing(bk, booking_id) == bk

\* bot_server.py: DELETE FROM bookings WHERE booking_id = ?
SrvDeleteBooking(bk, booking_id) == {b \in bk : b.booking_id # booking_id}

\* bot_server.py cancel_booking(booking_id, telegram_id)
SrvCancelBooking(bk, us, booking_id, telegram_id) ==
    LET found == {b \in bk : b.booking_id = booking_id}
        joined == {<<b, u, s>> \in found \X us \X slots :
                     b.user_id = u.user_id /\ b.slot_id = s.slot_id}
    IN  IF joined = {}
        THEN [bookings |-> bk,
              ret |-> Ret("cancel_booking", FALSE, NOT_FOUND,
                          NoText, {})]
        ELSE LET result == CHOOSE j \in joined : TRUE
             IN  IF IsNotOwner(result[2].telegram_id, telegram_id)
                 THEN [bookings |-> bk,
                       ret |-> Ret("cancel_booking", FALSE,
                                   NOT_OWNER, NoText, {})]
                 ELSE [bookings |-> SrvDeleteBooking(bk, booking_id),
                       ret |-> Ret("cancel_booking", TRUE,
                                   CANCELLED, result[3].time_range, {})]

(* ----------------------------- keep-alive ------------------------------ *)
\* bot_server.py KeepAliveSystem. A _ping_loop thread is at one of:
\*   "test"     the while self.is_running test
\*   "ping"     the try body: _perform_ping, the count, the external ping
\*   "sleep"    the for loop of one-second sleeps
\*   "backoff"  time.sleep(60) of the except branch
\*   "exited"   the loop has returned
\* and "none" is a thread that start() has not created.
Threads == 1..MaxThreads
NoThread == 0
LiveLoops == {p \in Threads : loop[p] \in {"test", "ping", "sleep", "backoff"}}

\* KeepAliveSystem.__init__
KaInit ==
    /\ is_running = FALSE
    /\ ping_count = 0
    /\ ping_thread = NoThread
    /\ loop = [p \in Threads |-> "none"]
    /\ caller = "idle"

(* ------------------------------ handlers ------------------------------- *)
SlotInputs == 0..MaxSlotInput        \* int(data.split("_")[1]); 0 names no slot
BookingInputs == 1..MaxBookingId
UserIdInputs == 1..MaxUsers

Callers == 1..NumCallers
NoCallers == [p \in Callers |-> "idle"]
NoLocals == [p \in Callers |-> [booked_count |-> 0, result |-> NO_MSG, names |-> {}]]

Idle == [i |-> 0 - 1, date |-> 0]

\* bot.py main -> init_db: CREATE TABLE IF NOT EXISTS (no row changes), then
\* generate_slots_for_date(today, conn) starts
BotInitDbBegin(today) ==
    /\ rev = "bot"
    /\ gen = Idle
    /\ init_runs < MaxInitDb
    /\ gen' = [i |-> 0, date |-> today]
    /\ UNCHANGED <<kavars, rev, users, time_slots, slots, slot_seq, bookings, booking_seq,
                   init_runs, ret, pc, loc>>

\* bot.py generate_slots_for_date: one iteration of the loop
BotGenerateSlot ==
    /\ rev = "bot"
    /\ gen # Idle
    /\ gen.i < GenerateIterations
    /\ LET db == GenerateStep([rows |-> time_slots, seq |-> slot_seq], gen.i, gen.date)
       IN  /\ time_slots' = db.rows
           /\ slot_seq' = db.seq
    /\ gen' = [gen EXCEPT !.i = gen.i + 1]
    /\ UNCHANGED <<kavars, rev, users, slots, bookings, booking_seq, init_runs, ret, pc, loc>>

\* bot_server.py run_bot -> init_db: CREATE TABLE IF NOT EXISTS, the time_slots
\* list is built
SrvInitDbBegin ==
    /\ rev = "bot_server"
    /\ gen = Idle
    /\ init_runs < MaxInitDb
    /\ gen' = [i |-> 0, date |-> 0]
    /\ UNCHANGED <<kavars, rev, users, time_slots, slots, slot_seq, bookings, booking_seq,
                   init_runs, ret, pc, loc>>

\* bot_server.py init_db: one iteration of  for time_slot in time_slots
SrvInsertSlot ==
    /\ rev = "bot_server"
    /\ gen # Idle
    /\ gen.i < InitDbIterations
    /\ LET db == InitDbStep([rows |-> slots, seq |-> slot_seq], gen.i)
       IN  /\ slots' = db.rows
           /\ slot_seq' = db.seq
    /\ gen' = [gen EXCEPT !.i = gen.i + 1]
    /\ UNCHANGED <<kavars, rev, users, time_slots, bookings, booking_seq, init_runs, ret,
                   pc, loc>>

\* init_db: conn.commit(); conn.close() after the last iteration
InitDbCommit ==
    /\ gen # Idle
    /\ gen.i = IF rev = "bot" THEN GenerateIterations ELSE InitDbIterations
    /\ gen' = Idle
    /\ init_runs' = init_runs + 1
    /\ ret' = Ret("init_db", TRUE, NO_MSG, NoText, {})
    /\ UNCHANGED <<kavars, rev, users, time_slots, slots, slot_seq, bookings, booking_seq,
                   pc, loc>>

\* bot.py register_name: the account sends its name
BotRegisterName(telegram_id) ==
    /\ rev = "bot"
    /\ LET r == BotGetOrCreateUser(users, telegram_id, FullName(AccountOf(telegram_id)))
       IN  /\ users' = r.users
           /\ ret' = Ret("register_name", r.user_id # None,
                         NO_MSG, NoText, {})
    /\ UNCHANGED <<kavars, rev, time_slots, slots, slot_seq, bookings, booking_seq,
                   init_runs, gen, pc, loc>>

\* bot.py button_handler, data = "book_<slot_id>"
BotButtonBook(telegram_id, slot_id) ==
    /\ rev = "bot"
    /\ LET user_fio == get_user_fio(users, telegram_id)
       IN  IF user_fio = NoText
           THEN /\ ret' = Ret("book_slot", FALSE, NOT_REGISTERED,
                              NoText, {})
                /\ UNCHANGED <<users, bookings, booking_seq>>
           ELSE LET u == BotGetOrCreateUser(users, telegram_id, user_fio)
                    r == BotBookSlot(bookings, booking_seq, u.users, u.user_id, slot_id)
                IN  /\ r.seq <= MaxBookingId
                    /\ users' = u.users
                    /\ bookings' = r.bookings
                    /\ booking_seq' = r.seq
                    /\ ret' = r.ret
    /\ UNCHANGED <<kavars, rev, time_slots, slots, slot_seq, init_runs, gen, pc, loc>>

\* bot.py cancel_booking(user_id, slot_id)
BotCancel(user_id, slot_id) ==
    /\ rev = "bot"
    /\ LET r == BotCancelBooking(bookings, user_id, slot_id)
       IN  /\ bookings' = r.bookings
           /\ ret' = r.ret
    /\ UNCHANGED <<kavars, rev, users, time_slots, slots, slot_seq, booking_seq,
                   init_runs, gen, pc, loc>>

\* bot_server.py start
SrvStart(telegram_id) ==
    /\ rev = "bot_server"
    /\ LET r == SrvGetOrCreateUser(users, telegram_id, FullName(AccountOf(telegram_id)))
       IN  /\ users' = r.users
           /\ ret' = Ret("start", TRUE, NO_MSG, NoText, {})
    /\ UNCHANGED <<kavars, rev, time_slots, slots, slot_seq, bookings, booking_seq,
                   init_runs, gen, pc, loc>>

\* bot_server.py button_handler, data = "book_<slot_id>"
SrvButtonBook(telegram_id, slot_id) ==
    /\ rev = "bot_server"
    /\ LET u == SrvGetOrCreateUser(users, telegram_id, FullName(AccountOf(telegram_id)))
           r == SrvBookSlot(bookings, booking_seq, u.user_id, slot_id)
       IN  /\ r.seq <= MaxBookingId
           /\ users' = u.users
           /\ bookings' = r.bookings
           /\ booking_seq' = r.seq
           /\ ret' = r.ret
    /\ UNCHANGED <<kavars, rev, time_slots, slots, slot_seq, init_runs, gen, pc, loc>>

\* bot_server.py button_handler, data = "cancel_<booking_id>"
SrvButtonCancel(telegram_id, booking_id) ==
    /\ rev = "bot_server"
    /\ LET r == SrvCancelBooking(bookings, users, booking_id, telegram_id)
       IN  /\ bookings' = r.bookings
           /\ ret' = r.ret
    /\ UNCHANGED <<kavars, rev, users, time_slots, slots, slot_seq, booking_seq,
                   init_runs, gen, pc, loc>>

(* ---------------------------- query surface ---------------------------- *)
\* the status icons of the replies
GREEN == "green"      \* "🟢"
YELLOW == "yellow"    \* "🟡"
RED == "red"          \* "🔴"

TOTAL_SLOTS_PER_DAY == 96

\* strftime('%H:%M') / f"{hour:02d}:{minute:02d}" of a clock reading
\* <<hour, minute>>
ClockText(clk) == Fmt02(clk[1]) \o <<":">> \o Fmt02(clk[2])

\* the byte of each character of the texts: SQLite compares TEXT values
\* byte by byte
Bytes ==
    ("-" :> 45) @@ (":" :> 58) @@ ("U" :> 85)
        @@ [c \in {Digits[d] : d \in 1..10} |-> 48 + DigitValue(c)]

CharCode(c) == Bytes[c]

\* a < b for TEXT values (BINARY collation): the first differing byte
\* decides, a proper prefix is smaller
TextLess(a, b) ==
    LET n == IF Len(a) < Len(b) THEN Len(a) ELSE Len(b)
        differ == {i \in 1..n : a[i] # b[i]}
    IN  IF differ = {}
        THEN Len(a) < Len(b)
        ELSE LET i == CHOOSE d \in differ : \A e \in differ : d <= e
             IN  CharCode(a[i]) < CharCode(b[i])

\* every slot text the two generators write
SlotTexts ==
    {SlotTime(i \div 4, 15 * (i % 4)) : i \in 0..(GenerateIterations - 1)}
        \cup {TimeRange(8 + (i \div 4), 15 * (i % 4)) : i \in 0..(InitDbIterations - 1)}

\* the place of each slot text in the BINARY collation order of the slot
\* texts (the sort key of ORDER BY slot_time / time_range)
TextOrder == [t \in SlotTexts |-> Cardinality({x \in SlotTexts : TextLess(x, t)})]

\* the element of a one-element set (binds a value that is computed once)
Only(S) == CHOOSE x \in S : TRUE

\* ORDER BY text LIMIT n over rows given as pairs <<text, row>>, the text
\* column being UNIQUE: the rows in ascending order of their sort keys, the
\* first n
OrderByTextLimit(T, n) ==
    LET keyed == {<<TextOrder[p[1]], p[2]>> : p \in T}
        keys == {p[1] : p \in keyed}
        sorted == SelectSeq([k \in 1..Cardinality(SlotTexts) |-> k - 1],
                            LAMBDA k : k \in keys)
        m == IF Len(sorted) < n THEN Len(sorted) ELSE n
    IN  Only({[i \in 1..m |-> (CHOOSE p \in kr : p[1] = sk[i])[2]] :
                  kr \in {keyed}, sk \in {sorted}})

\* rows given as pairs <<rowid, row>>, scanned in rowid order; seq is the
\* table's sqlite_sequence
Scan(T, seq) ==
    LET ids == {p[1] : p \in T}
        idseq == SelectSeq([k \in 1..seq |-> k], LAMBDA k : k \in ids)
    IN  [i \in 1..Len(idseq) |-> (CHOOSE p \in T : p[1] = idseq[i])[2]]

\* bot.py: GROUP_CONCAT(u.full_name) over the active bookings of a slot
PeopleNames(bk, us, slot_id) ==
    {u.full_name : u \in {x \in us : \E b \in bk :
        b.user_id = x.user_id /\ b.slot_id = slot_id /\ b.status = "active"}}

\* bot.py get_next_2_hours_slots(): today's slots whose start text is >= the
\* clock text, joined with their active bookings, ORDER BY slot_time LIMIT 8
get_next_2_hours_slots(tsl, bk, us, current_date, clk) ==
    LET current_time_str == ClockText(clk)
        W == {ts \in tsl : /\ ts.date = current_date
                           /\ ~TextLess(SubSeq(ts.slot_time, 1, 5), current_time_str)}
        limited == OrderByTextLimit({<<r.slot_time, r>> : r \in W}, 8)
    IN  Only({[i \in 1..Len(q) |->
                  [id |-> q[i].id,
                   slot_time |-> q[i].slot_time,
                   max_people |-> q[i].max_people,
                   booked_count |-> BotBookedCount(bk, q[i].id),
                   people_names |-> PeopleNames(bk, us, q[i].id)]] :
                  q \in {limited}})

\* bot.py get_slots_keyboard: the icon of one slot button
KeyboardIcon(booked_count, max_people) ==
    IF booked_count >= max_people THEN RED
    ELSE IF max_people - booked_count = 1 THEN YELLOW
    ELSE GREEN

\* bot.py get_all_today_bookings(): every slot of today with its active
\* bookings, ORDER BY slot_time
get_all_today_bookings(tsl, bk, us, today) ==
    LET W == {ts \in tsl : ts.date = today}
        ordered == OrderByTextLimit({<<r.slot_time, r>> : r \in W}, Cardinality(W))
    IN  Only({[i \in 1..Len(q) |->
                  [slot_time |-> q[i].slot_time,
                   max_people |-> q[i].max_people,
                   booked_count |-> BotBookedCount(bk, q[i].id),
                   people_names |-> PeopleNames(bk, us, q[i].id)]] :
                  q \in {ordered}})

\* bot.py show_all_bookings: the icon of one line
RosterIcon(booked_count, max_people) ==
    IF booked_count = 0 THEN GREEN
    ELSE IF booked_count = max_people THEN RED
    ELSE YELLOW

\* the same rows without the ORDER BY: in scan order of bookings
BotUserBookingRowsUnordered(tsl, bk, bseq, us, user_id) ==
    LET mine == {b \in bk : b.user_id = user_id /\ b.status = "active"}
        W == {[b |-> b, ts |-> CHOOSE ts \in tsl : ts.id = b.slot_id] :
                 b \in {x \in mine : \E ts \in tsl : ts.id = x.slot_id}}
    IN  Only({[i \in 1..Len(q) |->
                  [booking_id |-> q[i].b.id,
                   slot_time |-> q[i].ts.slot_time,
                   max_people |-> q[i].ts.max_people,
                   booked_count |-> BotBookedCount(bk, q[i].ts.id),
                   other_users |-> OtherUsers(bk, us, user_id, q[i].ts.id)]] :
                  q \in {Scan({<<j.b.id, j>> : j \in W}, bseq)}})

\* bot.py get_user_bookings: the query for a known user_id: the user's active
\* bookings joined with their slots, ORDER BY slot_time
BotUserBookingRows(tsl, bk, bseq, us, user_id) ==
    LET mine == {b \in bk : b.user_id = user_id /\ b.status = "active"}
        W == {[b |-> b, ts |-> CHOOSE ts \in tsl : ts.id = b.slot_id] :
                 b \in {x \in mine : \E ts \in tsl : ts.id = x.slot_id}}
        ordered == SortSeq(Scan({<<j.b.id, j>> : j \in W}, bseq),
                           LAMBDA x, y : TextOrder[x.ts.slot_time] < TextOrder[y.ts.slot_time])
    IN  Only({[i \in 1..Len(q) |->
                  [booking_id |-> q[i].b.id,
                   slot_time |-> q[i].ts.slot_time,
                   max_people |-> q[i].ts.max_people,
                   booked_count |-> BotBookedCount(bk, q[i].ts.id),
                   other_users |-> OtherUsers(bk, us, user_id, q[i].ts.id)]] :
                  q \in {ordered}})

\* bot_server.py get_available_slots(): the slots whose time_range is >=
\* "HH:MM-", with their bookings, ORDER BY time_range LIMIT 8
get_available_slots(sl, bk, clk) ==
    LET current_time_str == ClockText(clk)
        W == {s \in sl : ~TextLess(s.time_range, current_time_str \o <<"-">>)}
        limited == OrderByTextLimit({<<r.time_range, r>> : r \in W}, 8)
    IN  Only({[i \in 1..Len(q) |->
                  [slot_id |-> q[i].slot_id,
                   time_range |-> q[i].time_range,
                   booked_count |-> SrvBookedCount(bk, q[i].slot_id),
                   max_people |-> q[i].max_people]] :
                  q \in {limited}})

\* bot_server.py handle_book / handle_all_bookings: the status of one slot
StatusIcon(booked_count, max_people) ==
    IF booked_count = 0 THEN GREEN
    ELSE IF booked_count < max_people THEN YELLOW
    ELSE RED

\* bot_server.py handle_all_bookings: the query, LIMIT 10
AllBookingsRows(sl, bk, us, clk) ==
    LET current_time_str == ClockText(clk)
        W == {s \in sl : ~TextLess(s.time_range, current_time_str \o <<"-">>)}
        limited == OrderByTextLimit({<<r.time_range, r>> : r \in W}, 10)
    IN  Only({[i \in 1..Len(q) |->
                  [time_range |-> q[i].time_range,
                   booked |-> SrvBookedCount(bk, q[i].slot_id),
                   max_people |-> q[i].max_people,
                   users |-> {u.full_name : u \in {x \in us : \E b \in bk :
                                 b.user_id = x.user_id /\ b.slot_id = q[i].slot_id}}]] :
                  q \in {limited}})

\* bot_server.py get_user_bookings(telegram_id): bookings joined with slots
\* and users, ORDER BY time_range (rows of one slot stay in scan order)
SrvUserBookingRows(sl, bk, bseq, us, telegram_id) ==
    LET mine == {b \in bk : \E u \in us : u.user_id = b.user_id
                                          /\ u.telegram_id = telegram_id}
        W == {[b |-> b, s |-> CHOOSE s \in sl : s.slot_id = b.slot_id] :
                 b \in {x \in mine : \E s \in sl : s.slot_id = x.slot_id}}
        ordered == SortSeq(Scan({<<j.b.booking_id, j>> : j \in W}, bseq),
                           LAMBDA x, y : TextOrder[x.s.time_range] < TextOrder[y.s.time_range])
    IN  Only({[i \in 1..Len(q) |->
                  [booking_id |-> q[i].b.booking_id,
                   time_range |-> q[i].s.time_range,
                   slot_id |-> q[i].s.slot_id]] :
                  q \in {ordered}})

\* bot_server.py handle_statistics: the groups of  bookings JOIN slots
\* GROUP BY s.slot_id  with their COUNT(b.booking_id)
PopularGroups(sl, bk) ==
    {[time_range |-> s.time_range, booking_count |-> SrvBookedCount(bk, s.slot_id)] :
        s \in {x \in sl : \E b \in bk : b.slot_id = x.slot_id}}

\* ORDER BY booking_count DESC LIMIT 1: a group with the greatest count; SQL
\* leaves the order of groups with equal counts open (SQLite 3.40 puts the
\* group with the greatest slot_id first)
PopularSlots(sl, bk) ==
    {g \in PopularGroups(sl, bk) :
        \A h \in PopularGroups(sl, bk) : h.booking_count <= g.booking_count}

\* what a query handler returned or showed
View(op, rows) ==
    [op |-> op, ok |-> TRUE, msg |-> NO_MSG, text |-> NoText, names |-> {},
     rows |-> rows]

(* --------------------------- query handlers ---------------------------- *)
\* bot.py show_book_menu, at clock reading clk of day current_date
BotShowBookMenu(telegram_id, current_date, clk) ==
    /\ rev = "bot"
    /\ ret' = IF get_user_fio(users, telegram_id) = NoText
              THEN Ret("show_book_menu", FALSE, NOT_REGISTERED, NoText, {})
              ELSE Only({View("show_book_menu",
                              [i \in 1..Len(found) |->
                                  [slot |-> found[i],
                                   icon |-> KeyboardIcon(found[i].booked_count,
                                                         found[i].max_people)]]) :
                         found \in {get_next_2_hours_slots(time_slots, bookings, users,
                                                           current_date, clk)}})
    /\ UNCHANGED <<kavars, rev, users, time_slots, slots, slot_seq, bookings, booking_seq,
                   init_runs, gen, pc, loc>>

\* bot.py show_all_bookings, on day today
BotShowAllBookings(today) ==
    /\ rev = "bot"
    /\ \E found \in {get_all_today_bookings(time_slots, bookings, users, today)} :
           ret' = View("show_all_bookings",
                       [i \in 1..Len(found) |->
                           [slot |-> found[i],
                            icon |-> RosterIcon(found[i].booked_count,
                                                found[i].max_people)]])
    /\ UNCHANGED <<kavars, rev, users, time_slots, slots, slot_seq, bookings, booking_seq,
                   init_runs, gen, pc, loc>>

\* bot.py button_handler, data = "all_slots" -> show_all_bookings_for_button
BotShowAllBookingsForButton(telegram_id, today) ==
    /\ rev = "bot"
    /\ IF get_user_fio(users, telegram_id) = NoText
       THEN ret' = Ret("show_all_bookings_for_button", FALSE, NOT_REGISTERED,
                       NoText, {})
       ELSE \E found \in {get_all_today_bookings(time_slots, bookings, users, today)} :
                ret' = View("show_all_bookings_for_button",
                            [i \in 1..Len(found) |->
                                [slot |-> found[i],
                                 icon |-> RosterIcon(found[i].booked_count,
                                                     found[i].max_people)]])
    /\ UNCHANGED <<kavars, rev, users, time_slots, slots, slot_seq, bookings, booking_seq,
                   init_runs, gen, pc, loc>>

\* bot.py get_user_bookings(telegram_id)
BotGetUserBookings(telegram_id) ==
    /\ rev = "bot"
    /\ LET u == BotGetOrCreateUser(users, telegram_id, NoText)
       IN  /\ users' = u.users
           /\ ret' = View("get_user_bookings",
                          IF u.user_id = None
                          THEN <<>>
                          ELSE BotUserBookingRows(time_slots, bookings, booking_seq,
                                                  u.users, u.user_id))
    /\ UNCHANGED <<kavars, rev, time_slots, slots, slot_seq, bookings, booking_seq,
                   init_runs, gen, pc, loc>>

\* bot.py show_stats, on day today
BotShowStats(today) ==
    /\ rev = "bot"
    /\ LET active == {b \in bookings : b.status = "active"}
           counted == Cardinality({ts \in time_slots : ts.date = today})
           total_slots == IF counted = 0 THEN TOTAL_SLOTS_PER_DAY ELSE counted
           booked_slots == Cardinality({ts \in time_slots :
                               /\ ts.date = today
                               /\ \E b \in active : b.slot_id = ts.id})
       IN  ret' = View("show_stats",
                       <<[active_users |-> Cardinality({b.user_id : b \in active}),
                          total_slots |-> total_slots,
                          booked_slots |-> booked_slots,
                          free |-> total_slots - booked_slots]>>)
    /\ UNCHANGED <<kavars, rev, users, time_slots, slots, slot_seq, bookings, booking_seq,
                   init_runs, gen, pc, loc>>

\* bot_server.py handle_book, at clock reading clk
SrvHandleBook(clk) ==
    /\ rev = "bot_server"
    /\ \E found \in {get_available_slots(slots, bookings, clk)} :
           ret' = View("handle_book",
                       [i \in 1..Len(found) |->
                           [slot |-> found[i],
                            icon |-> StatusIcon(found[i].booked_count,
                                                found[i].max_people)]])
    /\ UNCHANGED <<kavars, rev, users, time_slots, slots, slot_seq, bookings, booking_seq,
                   init_runs, gen, pc, loc>>

\* bot_server.py handle_all_bookings, at clock reading clk
SrvHandleAllBookings(clk) ==
    /\ rev = "bot_server"
    /\ \E found \in {AllBookingsRows(slots, bookings, users, clk)} :
           ret' = View("handle_all_bookings",
                       [i \in 1..Len(found) |->
                           [slot |-> found[i],
                            icon |-> StatusIcon(found[i].booked, found[i].max_people)]])
    /\ UNCHANGED <<kavars, rev, users, time_slots, slots, slot_seq, bookings, booking_seq,
                   init_runs, gen, pc, loc>>

\* bot_server.py handle_my_bookings -> get_user_bookings(telegram_id)
SrvGetUserBookings(telegram_id) ==
    /\ rev = "bot_server"
    /\ ret' = View("get_user_bookings",
                   SrvUserBookingRows(slots, bookings, booking_seq, users, telegram_id))
    /\ UNCHANGED <<kavars, rev, users, time_slots, slots, slot_seq, bookings, booking_seq,
                   init_runs, gen, pc, loc>>

\* bot_server.py handle_statistics
SrvHandleStatistics ==
    /\ rev = "bot_server"
    /\ \E popular_slot \in IF PopularSlots(slots, bookings) = {}
                           THEN {<<>>}
                           ELSE {<<g>> : g \in PopularSlots(slots, bookings)} :
          ret' = View("handle_statistics",
                      <<[total_users |-> Cardinality(users),
                         total_slots |-> Cardinality(slots),
                         total_bookings |-> Cardinality(bookings),
                         free |-> Cardinality(slots) - Cardinality(bookings),
                         popular_slot |-> popular_slot]>>)
    /\ UNCHANGED <<kavars, rev, users, time_slots, slots, slot_seq, bookings, booking_seq,
                   init_runs, gen, pc, loc>>

(* --------------------------- specification ----------------------------- *)
\* the database after main() has run init_db once on a new file and the
\* accounts have registered in order
Init ==
    /\ rev \in {"bot", "bot_server"}
    /\ users = RegisteredUsers(MaxUsers)
    /\ time_slots = IF rev = "bot" THEN BotCatalog(1) ELSE {}
    /\ slots = IF rev = "bot_server" THEN SrvCatalog ELSE {}
    /\ slot_seq = IF rev = "bot" THEN GenerateIterations ELSE InitDbIterations
    /\ bookings = {}
    /\ booking_seq = 0
    /\ init_runs = 1
    /\ gen = Idle
    /\ ret = Ret("init_db", TRUE, NO_MSG, NoText, {})
    /\ pc = NoCallers
    /\ loc = NoLocals
    /\ KaInit

Next ==
    \/ \E t \in TelegramIds : BotRegisterName(t)
    \/ \E t \in TelegramIds, s \in SlotInputs : BotButtonBook(t, s)
    \/ \E u \in UserIdInputs, s \in SlotInputs : BotCancel(u, s)
    \/ \E t \in TelegramIds : SrvStart(t)
    \/ \E t \in TelegramIds, s \in SlotInputs : SrvButtonBook(t, s)
    \/ \E t \in TelegramIds, b \in BookingInputs : SrvButtonCancel(t, b)

Spec == Init /\ [][Next]_vars

(* ----------------------- catalog specification ------------------------- *)
\* a new database file: the process starts, init_db runs (and runs again at
\* every restart of the process)
InitCatalog ==
    /\ rev \in {"bot", "bot_server"}
    /\ users = {}
    /\ time_slots = {}
    /\ slots = {}
    /\ slot_seq = 0
    /\ bookings = {}
    /\ booking_seq = 0
    /\ init_runs = 0
    /\ gen = Idle
    /\ ret = Ret("start", TRUE, NO_MSG, NoText, {})
    /\ pc = NoCallers
    /\ loc = NoLocals
    /\ KaInit

NextCatalog ==
    \/ \E d \in Dates : BotInitDbBegin(d)
    \/ BotGenerateSlot
    \/ SrvInitDbBegin
    \/ SrvInsertSlot
    \/ InitDbCommit

SpecCatalog == InitCatalog /\ [][NextCatalog]_vars

\* the finished catalog of a first run is the table the ledger starts from
CatalogIsClosedForm ==
    (init_runs = 1 /\ gen = Idle) =>
        /\ rev = "bot" => \E d \in Dates : time_slots = BotCatalog(d)
        /\ rev = "bot_server" => slots = SrvCatalog
        /\ slot_seq = IF rev = "bot" THEN GenerateIterations ELSE InitDbIterations

(* ------------------- overlapping book_slot calls ----------------------- *)
\* Every book_slot call opens its own connection and runs its statements in
\* autocommit mode up to the INSERT; nothing in book_slot holds a lock from
\* the COUNT to the INSERT, so the statements of calls that overlap (two
\* processes or threads on the same database file) interleave one by one.
\* Caller p is user_id p; all callers book TargetSlot, the first slot of the
\* catalog.
TargetSlot == MaxOf({1})
BOOKED == "True"       \* returned True
REFUSED == "False"     \* bot_server.py: returned a bare False

\* SELECT COUNT(*) ... ; booked_count = c.fetchone()[0]
CallCount(p) ==
    /\ pc[p] = "idle"
    /\ loc' = [loc EXCEPT ![p].booked_count =
                 IF rev = "bot" THEN BotBookedCount(bookings, TargetSlot)
                                ELSE SrvBookedCount(bookings, TargetSlot)]
    /\ pc' = [pc EXCEPT ![p] = "counted"]
    /\ UNCHANGED <<kavars, rev, users, time_slots, slots, slot_seq, bookings, booking_seq,
                   init_runs, gen, ret>>

\* SELECT max_people ... ; if booked_count >= max_people: return
CallCheck(p) ==
    /\ pc[p] = "counted"
    /\ LET max_people == IF rev = "bot" THEN BotMaxPeople(TargetSlot)
                                        ELSE SrvMaxPeople(TargetSlot)
       IN  IF IsFull(loc[p].booked_count, max_people)
           THEN /\ pc' = [pc EXCEPT ![p] = "done"]
                /\ loc' = [loc EXCEPT ![p].result =
                             IF rev = "bot" THEN SLOT_FULL ELSE REFUSED]
           ELSE /\ pc' = [pc EXCEPT ![p] = IF rev = "bot" THEN "checked" ELSE "insert"]
                /\ loc' = loc
    /\ UNCHANGED <<kavars, rev, users, time_slots, slots, slot_seq, bookings, booking_seq,
                   init_runs, gen, ret>>

\* bot.py: SELECT * FROM bookings WHERE user_id = ? AND slot_id = ? AND active
CallDupCheck(p) ==
    /\ rev = "bot"
    /\ pc[p] = "checked"
    /\ IF HasActiveBooking(bookings, p, TargetSlot)
       THEN /\ pc' = [pc EXCEPT ![p] = "done"]
            /\ loc' = [loc EXCEPT ![p].result = ALREADY_BOOKED]
       ELSE /\ pc' = [pc EXCEPT ![p] = "insert"]
            /\ loc' = loc
    /\ UNCHANGED <<kavars, rev, users, time_slots, slots, slot_seq, bookings, booking_seq,
                   init_runs, gen, ret>>

\* INSERT INTO bookings ...; conn.commit()
CallInsert(p) ==
    /\ pc[p] = "insert"
    /\ bookings' = IF rev = "bot"
                   THEN BotInsertBooking(bookings, booking_seq, p, TargetSlot)
                   ELSE SrvInsertBooking(bookings, booking_seq, p, TargetSlot)
    /\ booking_seq' = booking_seq + 1
    /\ pc' = [pc EXCEPT ![p] = IF rev = "bot" THEN "inserted" ELSE "done"]
    /\ loc' = [loc EXCEPT ![p].result = BOOKED]
    /\ UNCHANGED <<kavars, rev, users, time_slots, slots, slot_seq, init_runs, gen, ret>>

\* bot.py: SELECT slot_time ...; SELECT u.full_name ... ; return True, (...)
CallReadBack(p) ==
    /\ rev = "bot"
    /\ pc[p] = "inserted"
    /\ loc' = [loc EXCEPT ![p].names = OtherUsers(bookings, users, p, TargetSlot)]
    /\ pc' = [pc EXCEPT ![p] = "done"]
    /\ UNCHANGED <<kavars, rev, users, time_slots, slots, slot_seq, bookings, booking_seq,
                   init_runs, gen, ret>>

\* the ledger with an empty TargetSlot and NumCallers registered users, each
\* about to call book_slot
InitConc ==
    /\ rev \in {"bot", "bot_server"}
    /\ users = RegisteredUsers(NumCallers)
    /\ time_slots = IF rev = "bot" THEN BotCatalog(1) ELSE {}
    /\ slots = IF rev = "bot_server" THEN SrvCatalog ELSE {}
    /\ slot_seq = IF rev = "bot" THEN GenerateIterations ELSE InitDbIterations
    /\ bookings = {}
    /\ booking_seq = 0
    /\ init_runs = 1
    /\ gen = Idle
    /\ ret = Ret("init_db", TRUE, NO_MSG, NoText, {})
    /\ pc = NoCallers
    /\ loc = NoLocals
    /\ KaInit

NextConc ==
    \E p \in Callers :
        \/ CallCount(p)
        \/ CallCheck(p)
        \/ CallDupCheck(p)
        \/ CallInsert(p)
        \/ CallReadBack(p)

SpecConc == InitConc /\ [][NextConc]_vars

(* ---------------------- the queries, observed -------------------------- *)
\* the accounts that book, and an account that only looks and has never
\* registered
BookingAccounts == {TelegramId(i) : i \in 1..ViewUsers}
Onlooker == TelegramId(ViewUsers + 1)
Viewers == BookingAccounts \cup {Onlooker}

\* clock readings: midnight (a slot boundary), before the working day, and
\* late in the evening
Clocks == {<<0, 0>>, <<7, 50>>, <<23, 10>>}

\* the database after init_db on day 1 and the registration of the booking
\* accounts
InitViews ==
    /\ rev \in {"bot", "bot_server"}
    /\ users = RegisteredUsers(ViewUsers)
    /\ time_slots = IF rev = "bot" THEN BotCatalog(1) ELSE {}
    /\ slots = IF rev = "bot_server" THEN SrvCatalog ELSE {}
    /\ slot_seq = IF rev = "bot" THEN GenerateIterations ELSE InitDbIterations
    /\ bookings = {}
    /\ booking_seq = 0
    /\ init_runs = 1
    /\ gen = Idle
    /\ ret = Ret("init_db", TRUE, NO_MSG, NoText, {})
    /\ pc = NoCallers
    /\ loc = NoLocals
    /\ KaInit

NextViews ==
    \/ \E t \in BookingAccounts, s \in 1..ViewSlots :
          booking_seq < ViewBookings /\ BotButtonBook(t, s)
    \/ \E u \in 1..ViewUsers, s \in 1..ViewSlots : BotCancel(u, s)
    \/ \E t \in BookingAccounts, s \in 1..ViewSlots :
          booking_seq < ViewBookings /\ SrvButtonBook(t, s)
    \/ \E t \in BookingAccounts, b \in 1..ViewBookings : SrvButtonCancel(t, b)
    \/ \E t \in {TelegramId(1), Onlooker}, d \in Dates, clk \in Clocks :
          BotShowBookMenu(t, d, clk)
    \/ \E d \in Dates : BotShowAllBookings(d)
    \/ \E t \in Viewers : BotGetUserBookings(t)
    \/ \E d \in Dates : BotShowStats(d)
    \/ \E clk \in Clocks : SrvHandleBook(clk)
    \/ \E clk \in Clocks : SrvHandleAllBookings(clk)
    \/ \E t \in Viewers : SrvGetUserBookings(t)
    \/ SrvHandleStatistics

SpecViews == InitViews /\ [][NextViews]_vars

(* ------------------ overlapping cancel_booking calls ------------------- *)
\* Every cancel_booking call opens its own connection. bot.py's call is one
\* UPDATE whose write lock is held until the commit, so a call changes the
\* table in one step. bot_server.py's call is a SELECT in autocommit mode and
\* then a DELETE: no lock is held from the one to the other, so the
\* statements of overlapping calls interleave.
\* Two accounts hold TargetSlot; caller p acts for account CancelAccount(p)
\* and cancels that account's booking, two callers for each booking.
CancelAccount(p) == ((p - 1) % 2) + 1
CancelBookingId(p) == CancelAccount(p)
NoCancelLocals ==
    [p \in Callers |-> [ok |-> FALSE, result |-> NO_MSG, time_range |-> NoText]]

\* bot.py cancel_booking(user_id, slot_id), the whole call
BotCancelCall(p) ==
    /\ rev = "bot"
    /\ pc[p] = "idle"
    /\ LET r == BotCancelBooking(bookings, CancelAccount(p), TargetSlot)
       IN  /\ bookings' = r.bookings
           /\ loc' = [loc EXCEPT ![p] = [ok |-> r.ret.ok, result |-> r.ret.msg,
                                         time_range |-> r.ret.text]]
    /\ pc' = [pc EXCEPT ![p] = "done"]
    /\ UNCHANGED <<kavars, rev, users, time_slots, slots, slot_seq, booking_seq,
                   init_runs, gen, ret>>

\* bot_server.py cancel_booking: the SELECT ... WHERE b.booking_id = ?, the
\* "not result" return and the owner check
SrvCancelLookup(p) ==
    /\ rev = "bot_server"
    /\ pc[p] = "idle"
    /\ LET found == {b \in bookings : b.booking_id = CancelBookingId(p)}
           joined == {<<b, u, s>> \in found \X users \X slots :
                        b.user_id = u.user_id /\ b.slot_id = s.slot_id}
       IN  IF joined = {}
           THEN /\ pc' = [pc EXCEPT ![p] = "done"]
                /\ loc' = [loc EXCEPT ![p].result = NOT_FOUND]
           ELSE LET result == CHOOSE j \in joined : TRUE
                IN  IF IsNotOwner(result[2].telegram_id,
                                  TelegramId(CancelAccount(p)))
                    THEN /\ pc' = [pc EXCEPT ![p] = "done"]
                         /\ loc' = [loc EXCEPT ![p].result = NOT_OWNER]
                    ELSE /\ pc' = [pc EXCEPT ![p] = "owned"]
                         /\ loc' = [loc EXCEPT ![p].time_range = result[3].time_range]
    /\ UNCHANGED <<kavars, rev, users, time_slots, slots, slot_seq, bookings, booking_seq,
                   init_runs, gen, ret>>

\* bot_server.py cancel_booking: DELETE ...; conn.commit(); return True, ...
SrvCancelDelete(p) ==
    /\ rev = "bot_server"
    /\ pc[p] = "owned"
    /\ bookings' = SrvDeleteBooking(bookings, CancelBookingId(p))
    /\ loc' = [loc EXCEPT ![p].ok = TRUE, ![p].result = CANCELLED]
    /\ pc' = [pc EXCEPT ![p] = "done"]
    /\ UNCHANGED <<kavars, rev, users, time_slots, slots, slot_seq, booking_seq,
                   init_runs, gen, ret>>

\* the ledger after accounts 1 and 2 have booked TargetSlot in this order,
\* and NumCallers callers about to call cancel_booking
InitCancel ==
    /\ rev \in {"bot", "bot_server"}
    /\ users = RegisteredUsers(NumCallers)
    /\ time_slots = IF rev = "bot" THEN BotCatalog(1) ELSE {}
    /\ slots = IF rev = "bot_server" THEN SrvCatalog ELSE {}
    /\ slot_seq = IF rev = "bot" THEN GenerateIterations ELSE InitDbIterations
    /\ bookings = IF rev = "bot"
                  THEN BotInsertBooking(BotInsertBooking({}, 0, 1, TargetSlot),
                                        1, 2, TargetSlot)
                  ELSE SrvInsertBooking(SrvInsertBooking({}, 0, 1, TargetSlot),
                                        1, 2, TargetSlot)
    /\ booking_seq = 2
    /\ init_runs = 1
    /\ gen = Idle
    /\ ret = Ret("init_db", TRUE, NO_MSG, NoText, {})
    /\ pc = NoCallers
    /\ loc = NoCancelLocals
    /\ KaInit

NextCancel ==
    \E p \in Callers :
        \/ BotCancelCall(p)
        \/ SrvCancelLookup(p)
        \/ SrvCancelDelete(p)

SpecCancel == InitCancel /\ [][NextCancel]_vars

(* ------------- the roster after overlapping book_slot calls ------------ *)
\* The overlapping book_slot calls of SpecConc, and the all-bookings views
\* requested once every one of these calls has returned.
NextRoster ==
    \/ NextConc
    \/ /\ \A p \in Callers : pc[p] = "done"
       /\ \/ \E d \in Dates : BotShowAllBookings(d)
          \/ \E d \in Dates : BotShowAllBookingsForButton(TelegramId(1), d)
          \/ \E clk \in Clocks : SrvHandleAllBookings(clk)

SpecRoster == InitConc /\ [][NextRoster]_vars

(* ------------------------ users near the limit ------------------------- *)
\* get_or_create_user calls, one after the other, on a users table that is
\* two rows short of the limit. The callers are account 1 (registered) and
\* NewAccounts accounts that are not registered at the start; a call passes
\* no name, the account's name, or another name for the account.
UsersAtStart == USER_LIMIT - 2
CallingAccounts ==
    {TelegramId(1)} \cup
    {TelegramId(i) : i \in (UsersAtStart + 1)..(UsersAtStart + NewAccounts)}

\* another name that account i may send
OtherName(i) == <<"V">> \o Fmt02(i)
NameInputs(t) == {NoText, FullName(AccountOf(t)), OtherName(AccountOf(t))}

\* bot.py get_or_create_user(telegram_id, username, full_name): one call
BotGetOrCreateUserCall(telegram_id, full_name) ==
    /\ rev = "bot"
    /\ LET r == BotGetOrCreateUser(users, telegram_id, full_name)
       IN  /\ users' = r.users
           /\ ret' = [op |-> "get_or_create_user", ok |-> r.user_id # None,
                      msg |-> NO_MSG, text |-> NoText, names |-> {},
                      user_id |-> r.user_id]
    /\ UNCHANGED <<kavars, rev, time_slots, slots, slot_seq, bookings, booking_seq,
                   init_runs, gen, pc, loc>>

InitUsers ==
    /\ rev = "bot"
    /\ users = RegisteredUsers(UsersAtStart)
    /\ time_slots = BotCatalog(1)
    /\ slots = {}
    /\ slot_seq = GenerateIterations
    /\ bookings = {}
    /\ booking_seq = 0
    /\ init_runs = 1
    /\ gen = Idle
    /\ ret = Ret("init_db", TRUE, NO_MSG, NoText, {})
    /\ pc = NoCallers
    /\ loc = NoLocals
    /\ KaInit

NextUsers ==
    \E t \in CallingAccounts : \E n \in NameInputs(t) : BotGetOrCreateUserCall(t, n)

SpecUsers == InitUsers /\ [][NextUsers]_vars

(* ------------------------ keep-alive, running -------------------------- *)
\* KeepAliveSystem.start()
KaStart ==
    /\ caller = "idle"
    /\ IF is_running
       THEN UNCHANGED <<is_running, ping_thread, loop>>
       ELSE \E n \in Threads :
               /\ loop[n] = "none"
               /\ \A m \in Threads : m < n => loop[m] # "none"
               /\ is_running' = TRUE
               /\ ping_thread' = n
               /\ loop' = [loop EXCEPT ![n] = "test"]
    /\ ret' = Ret("start", TRUE, NO_MSG, NoText, {})
    /\ UNCHANGED <<rev, users, time_slots, slots, slot_seq, bookings, booking_seq,
                   init_runs, gen, pc, loc, ping_count, caller>>

\* KeepAliveSystem.stop(): self.is_running = False; if self.ping_thread: join
KaStopBegin ==
    /\ caller = "idle"
    /\ is_running' = FALSE
    /\ caller' = IF ping_thread = NoThread THEN "idle" ELSE "joining"
    /\ ret' = Ret("stop", ping_thread = NoThread, NO_MSG, NoText, {})
    /\ UNCHANGED <<rev, users, time_slots, slots, slot_seq, bookings, booking_seq,
                   init_runs, gen, pc, loc, ping_count, ping_thread, loop>>

\* self.ping_thread.join(timeout=5) returns because the thread has ended
KaStopJoined ==
    /\ caller = "joining"
    /\ loop[ping_thread] = "exited"
    /\ caller' = "idle"
    /\ ret' = Ret("stop", TRUE, NO_MSG, NoText, {})
    /\ UNCHANGED <<rev, users, time_slots, slots, slot_seq, bookings, booking_seq,
                   init_runs, gen, pc, loc, is_running, ping_count, ping_thread, loop>>

\* self.ping_thread.join(timeout=5) returns after 5 seconds with the thread
\* alive: the thread is in a wait that lasts longer, the requests of the try
\* body (timeouts of 5 and 10 seconds) or the 60 second sleep
KaStopTimeout ==
    /\ caller = "joining"
    /\ loop[ping_thread] \in {"ping", "backoff"}
    /\ caller' = "idle"
    /\ ret' = Ret("stop", TRUE, NO_MSG, NoText, {})
    /\ UNCHANGED <<rev, users, time_slots, slots, slot_seq, bookings, booking_seq,
                   init_runs, gen, pc, loc, is_running, ping_count, ping_thread, loop>>

\* the test that never ends the loop
LoopTestForever(p) ==
    /\ loop[p] = "test"
    /\ ping_count < MaxPings
    /\ loop' = [loop EXCEPT ![p] = "ping"]
    /\ UNCHANGED <<rev, users, time_slots, slots, slot_seq, bookings, booking_seq,
                   init_runs, gen, ret, pc, loc, is_running, ping_count,
                   ping_thread, caller>>

\* _ping_loop: while self.is_running
LoopTest(p) ==
    /\ loop[p] = "test"
    /\ is_running => ping_count < MaxPings
    /\ loop' = [loop EXCEPT ![p] = IF is_running THEN "ping" ELSE "exited"]
    /\ UNCHANGED <<rev, users, time_slots, slots, slot_seq, bookings, booking_seq,
                   init_runs, gen, ret, pc, loc, is_running, ping_count,
                   ping_thread, caller>>

\* _ping_loop: the try body up to the sleep: _perform_ping(), ping_count += 1
LoopPing(p) ==
    /\ loop[p] = "ping"
    /\ ping_count' = ping_count + 1
    /\ loop' = [loop EXCEPT ![p] = "sleep"]
    /\ UNCHANGED <<rev, users, time_slots, slots, slot_seq, bookings, booking_seq,
                   init_runs, gen, ret, pc, loc, is_running, ping_thread, caller>>

\* _ping_loop: an exception in the try body, before or after the count
LoopRaise(p) ==
    /\ loop[p] = "ping"
    /\ \E counted \in {0, 1} : ping_count' = ping_count + counted
    /\ loop' = [loop EXCEPT ![p] = "backoff"]
    /\ UNCHANGED <<rev, users, time_slots, slots, slot_seq, bookings, booking_seq,
                   init_runs, gen, ret, pc, loc, is_running, ping_thread, caller>>

\* _ping_loop: the for loop of sleeps has ended, by its break on
\* not self.is_running or after its 480 rounds
LoopSleep(p) ==
    /\ loop[p] = "sleep"
    /\ loop' = [loop EXCEPT ![p] = "test"]
    /\ UNCHANGED <<rev, users, time_slots, slots, slot_seq, bookings, booking_seq,
                   init_runs, gen, ret, pc, loc, is_running, ping_count,
                   ping_thread, caller>>

\* _ping_loop: time.sleep(60) of the except branch has ended
LoopBackoff(p) ==
    /\ loop[p] = "backoff"
    /\ loop' = [loop EXCEPT ![p] = "test"]
    /\ UNCHANGED <<rev, users, time_slots, slots, slot_seq, bookings, booking_seq,
                   init_runs, gen, ret, pc, loc, is_running, ping_count,
                   ping_thread, caller>>

\* a step of thread p
LoopStep(p) ==
    \/ LoopTest(p)
    \/ LoopPing(p)
    \/ LoopRaise(p)
    \/ LoopSleep(p)
    \/ LoopBackoff(p)

\* bot_server.py after import: keep_alive_system = KeepAliveSystem()
InitKeepAlive ==
    /\ rev = "bot_server"
    /\ users = {}
    /\ time_slots = {}
    /\ slots = SrvCatalog
    /\ slot_seq = InitDbIterations
    /\ bookings = {}
    /\ booking_seq = 0
    /\ init_runs = 1
    /\ gen = Idle
    /\ ret = Ret("init_db", TRUE, NO_MSG, NoText, {})
    /\ pc = NoCallers
    /\ loc = NoLocals
    /\ KaInit

NextKeepAlive ==
    \/ KaStart
    \/ KaStopBegin
    \/ KaStopJoined
    \/ KaStopTimeout
    \/ \E p \in Threads : LoopStep(p)

SpecKeepAlive == InitKeepAlive /\ [][NextKeepAlive]_vars

\* the threads are scheduled: a loop thread that can take a step takes it
\* (every request has a timeout, every sleep ends)
SpecKeepAliveFair ==
    SpecKeepAlive /\ \A p \in Threads : WF_vars(LoopStep(p))

(* ------------------------- the ledger, observed ------------------------ *)
\* the rows that hold a seat: status 'active' in bot.py, every row in
\* bot_server.py
ActiveBookings ==
    IF rev = "bot" THEN {b \in bookings : b.status = "active"} ELSE bookings

BookingId(b) == IF rev = "bot" THEN b.id ELSE b.booking_id

SlotIds == IF rev = "bot" THEN {r.id : r \in time_slots}
                          ELSE {r.slot_id : r \in slots}

Capacity(s) == IF rev = "bot" THEN (CHOOSE r \in time_slots : r.id = s).max_people
                              ELSE (CHOOSE r \in slots : r.slot_id = s).max_people

Holders(s) == {b \in ActiveBookings : b.slot_id = s}

\* slots that a booking row names (every other slot has no holder)
BookedSlotIds == {b.slot_id : b \in bookings}

(* -------------------------------- C1 ----------------------------------- *)
\* C1: after any sequence of complete book_slot and cancel_booking calls, in
\* either revision, no slot has more active bookings than its max_people, and
\* every booking row names a slot of the catalog.
C1_CapacityInvariant ==
    /\ BookedSlotIds \subseteq SlotIds
    /\ \A s \in BookedSlotIds : Cardinality(Holders(s)) <= Capacity(s)

\* a full slot on which the last book_slot call was turned down
C1_Witness ==
    /\ ret.op = "book_slot"
    /\ ~ret.ok
    /\ \E s \in BookedSlotIds : Cardinality(Holders(s)) = Capacity(s)

(* -------------------------------- C2 ----------------------------------- *)
\* the callers whose INSERT was committed
Inserted == {p \in Callers : loc[p].result = BOOKED}

\* C2: book_slot's check-then-insert is atomic with respect to overlapping
\* book_slot calls on the same slot: in no interleaving of their statements do
\* more callers insert than the slot has seats.
C2_AtomicCheckThenInsert ==
    /\ Cardinality(Inserted) <= Capacity(TargetSlot)
    /\ Cardinality(Holders(TargetSlot)) <= Capacity(TargetSlot)

(* -------------------------------- C3 ----------------------------------- *)
AllReturned == \A p \in Callers : pc[p] = "done"

\* C3: of capacity + k overlapping book_slot calls by distinct users on one
\* empty slot, exactly capacity return success and exactly k are refused as
\* slot-full, in every interleaving.
C3_ExactlyCapacitySucceed ==
    AllReturned =>
        /\ Cardinality(Inserted) = Capacity(TargetSlot)
        /\ Cardinality({p \in Callers : loc[p].result \in {SLOT_FULL, REFUSED}})
               = NumCallers - Capacity(TargetSlot)

(* -------------------------------- C4 ----------------------------------- *)
\* C4: in every reachable state there is at most one active booking for
\* every (user, slot) pair.
C4_OneSeatPerUserAndSlot ==
    \A b1 \in ActiveBookings, b2 \in ActiveBookings :
        (b1.user_id = b2.user_id /\ b1.slot_id = b2.slot_id) => b1 = b2

(* -------------------------------- C5 ----------------------------------- *)
\* the users row id of a registered telegram account
UserIdOf(t) == (CHOOSE u \in users : u.telegram_id = t).user_id

Registered(t) == \E u \in users : u.telegram_id = t

\* user u holds a seat of slot s
Holds(u, s) == \E b \in ActiveBookings : b.user_id = u /\ b.slot_id = s

\* C5 as stated: a user who already holds an active booking on slot s gets
\* AlreadyBooked on a second book_slot(user, s), whatever the occupancy of s,
\* and the active count of s does not change.
C5_AlreadyBookedWhateverOccupancy ==
    [][\A t \in TelegramIds, s \in SlotInputs :
          (rev = "bot" /\ ret'.op = "book_slot" /\ Registered(t)
               /\ Holds(UserIdOf(t), s) /\ BotButtonBook(t, s)) =>
              /\ ret'.msg = ALREADY_BOOKED
              /\ Cardinality(Holders(s))' = Cardinality(Holders(s))]_vars

\* C5 amended: in bot.py a user who already holds an active booking on slot s
\* is refused on a second book_slot(user, s), with AlreadyBooked while s has a
\* free seat and with SlotFull when s is full; no booking row changes.
C5_SecondBookingRefused ==
    [][\A t \in TelegramIds, s \in SlotInputs :
          (rev = "bot" /\ ret'.op = "book_slot" /\ Registered(t)
               /\ Holds(UserIdOf(t), s) /\ BotButtonBook(t, s)) =>
              /\ ~ret'.ok
              /\ ret'.msg = IF Cardinality(Holders(s)) < Capacity(s)
                            THEN ALREADY_BOOKED ELSE SLOT_FULL
              /\ bookings' = bookings]_vars

\* a holder was just refused with AlreadyBooked
C5_Witness ==
    /\ rev = "bot"
    /\ ret.op = "book_slot"
    /\ ret.msg = ALREADY_BOOKED
    /\ \E b \in ActiveBookings : TRUE

(* -------------------------------- C6 ----------------------------------- *)
UserIds == {u.user_id : u \in users}

\* what book_slot(u, s) returns when it is called in this state
NextBook(u, s) ==
    IF rev = "bot" THEN BotBookSlot(bookings, booking_seq, users, u, s).ret
                   ELSE SrvBookSlot(bookings, booking_seq, u, s).ret

\* a step that is a successful cancel by user c of a seat of slot s
CancelStep(c, s) ==
    \/ /\ rev = "bot"
       /\ ret'.op = "cancel_booking"
       /\ Holds(c, s)
       /\ c \in UserIdInputs /\ s \in SlotInputs
       /\ BotCancel(c, s)
    \/ /\ rev = "bot_server"
       /\ ret'.op = "cancel_booking"
       /\ \E t \in TelegramIds, b \in BookingInputs :
             /\ Registered(t) /\ UserIdOf(t) = c
             /\ \E x \in bookings : x.booking_id = b /\ x.user_id = c /\ x.slot_id = s
             /\ SrvButtonCancel(t, b)

\* the cancel frees one seat of s and touches no other slot
FreesOneSeat(s) ==
    /\ ret'.ok
    /\ Cardinality(Holders(s))' = Cardinality(Holders(s)) - 1
    /\ \A x \in SlotIds \ {s} : Holders(x)' = Holders(x)

C7_NotOwnerRejected ==
    [][/\ \A t \in TelegramIds, b \in BookingInputs :
             (/\ rev = "bot_server"
              /\ ret'.op = "cancel_booking"
              /\ Registered(t)
              /\ \E x \in bookings : x.booking_id = b /\ x.user_id # UserIdOf(t)
              /\ SrvButtonCancel(t, b)) =>
                 (~ret'.ok /\ ret'.msg = NOT_OWNER /\ bookings' = bookings)
       /\ \A c \in UserIdInputs, s \in SlotInputs :
             (/\ rev = "bot"
              /\ ret'.op = "cancel_booking"
              /\ ~Holds(c, s)
              /\ Holders(s) # {}
              /\ BotCancel(c, s)) =>
                 (~ret'.ok /\ ret'.msg = NOT_OWNER /\ bookings' = bookings)]_vars

(* -------------------------------- C8 ----------------------------------- *)
\* what cancel_booking returns, and the bookings it leaves, when the call that
\* made this step is made again
CancelAgain(c, s, t, b) ==
    IF rev = "bot" THEN BotCancelBooking(bookings, c, s)
                   ELSE SrvCancelBooking(bookings, users, b, t)

\* the not-found rejection: "Запись не найдена" in bot_server.py; in bot.py
\* the (False, None) that cancel_booking returns when no active row matches
IsNotFound(r) ==
    /\ ~r.ok
    /\ r.text = NoText
    /\ r.msg = IF rev = "bot" THEN NO_MSG ELSE NOT_FOUND

BookingIds == {BookingId(b) : b \in bookings}

\* C9: a booking goes none -> active -> cancelled and cancelled is final: a
\* cancelled row never changes again, an active row keeps its id, user and
\* slot, and every row a step creates is active and has an id that no row has
\* had before (so booking again after a cancel makes a new booking).
C9_Lifecycle ==
    [][/\ booking_seq' >= booking_seq
       /\ \A b \in bookings' : BookingId(b) <= booking_seq'
       /\ \A b \in bookings' :
             BookingId(b) \notin BookingIds =>
                 (BookingId(b) > booking_seq /\ b \in ActiveBookings')
       /\ rev = "bot" =>
             \A b \in bookings :
                 /\ b.status = "cancelled" => b \in bookings'
                 /\ b.status = "active" =>
                        (b \in bookings' \/ [b EXCEPT !.status = "cancelled"] \in bookings')
       /\ rev = "bot_server" => bookings \cap bookings' = {b \in bookings' : b.booking_id <= booking_seq}]_vars

\* bot.py: a user holds a seat again on a slot where an earlier booking of
\* the same user is cancelled, under a new id
C9_Witness ==
    /\ rev = "bot"
    /\ \E b1 \in bookings, b2 \in bookings :
          /\ b1.user_id = b2.user_id /\ b1.slot_id = b2.slot_id
          /\ b1.status = "cancelled" /\ b2.status = "active"
          /\ b2.id > b1.id

(* -------------------------------- C10 ---------------------------------- *)
\* the loop of init_db has run to its end and the commit is next
LoopFinished ==
    /\ gen # Idle
    /\ gen.i = IF rev = "bot" THEN GenerateIterations ELSE InitDbIterations

\* the run in progress generates for the day the catalog was made for
SameDay == rev = "bot" => \A r \in time_slots : r.date = gen.date

\* C10: slot generation is idempotent: a further run for the same day (init_db
\* again, generate_slots_for_date(D) again) changes no slot row, so the set of
\* slots and their ids are those of the first run.
C10_GenerationIdempotent ==
    [][(init_runs >= 1 /\ gen # Idle /\ SameDay) =>
           (time_slots' = time_slots /\ slots' = slots)]_vars

\* a second run over the same day has gone through its whole loop
C10_Witness ==
    /\ init_runs >= 1
    /\ LoopFinished
    /\ SameDay
    /\ time_slots \cup slots # {}

(* ---------------------- reading the slot texts ------------------------- *)
\* text t holds "HH:MM" from position k on
IsClock(t, k) ==
    /\ Len(t) >= k + 4
    /\ IsDigit(t[k]) /\ IsDigit(t[k + 1]) /\ t[k + 2] = ":"
    /\ IsDigit(t[k + 3]) /\ IsDigit(t[k + 4])

ClockHour(t, k) == 10 * DigitValue(t[k]) + DigitValue(t[k + 1])
ClockMinute(t, k) == 10 * DigitValue(t[k + 3]) + DigitValue(t[k + 4])

\* minutes since midnight of the start and of the end of "HH:MM-HH:MM"
StartOf(t) == 60 * ClockHour(t, 1) + ClockMinute(t, 1)
EndOf(t) == 60 * ClockHour(t, 7) + ClockMinute(t, 7)

MinutesPerDay == 24 * 60

\* the slot texts stored in the catalog
CatalogTexts == {r.slot_time : r \in time_slots} \cup {r.time_range : r \in slots}

(* -------------------------------- C11 ---------------------------------- *)
\* C11: a slot is identified by (day, start time): when generate_slots_for_date
\* has finished for a day, that day has its own 96 slots, whatever slots exist
\* for other days.
C11_EachDayHasOwnInventory ==
    [][(rev = "bot" /\ LoopFinished /\ gen' = Idle) =>
           Cardinality({r \in time_slots : r.date = gen.date})
               = GenerateIterations]_vars

(* -------------------------------- C12 ---------------------------------- *)
\* C12: bot_server.py init_db generates the 15-minute windows from 08:00 to
\* 20:00: exactly 48 slots, the first starts at 08:00, every slot but the one
\* that ends at 20:00 is followed by a slot that starts where it ends, no two
\* slots overlap, the slot that starts at 19:45 ends at 20:00 and no slot
\* starts at or after 20:00.
C12_DayWindows ==
    (rev = "bot_server" /\ init_runs >= 1 /\ gen = Idle) =>
        LET T == {r.time_range : r \in slots}
        IN  /\ Cardinality(slots) = 48
            /\ Cardinality(T) = 48
            /\ \E x \in T : StartOf(x) = 8 * 60
            /\ \A x \in T :
                  /\ StartOf(x) >= 8 * 60
                  /\ StartOf(x) < 20 * 60
                  /\ StartOf(x) < EndOf(x)
                  /\ StartOf(x) = 19 * 60 + 45 => EndOf(x) = 20 * 60
                  /\ EndOf(x) = 20 * 60 \/ \E y \in T : StartOf(y) = EndOf(x)
            /\ \A x \in T, y \in T :
                  x # y => (EndOf(x) <= StartOf(y) \/ EndOf(y) <= StartOf(x))

\* init_db has finished and the window 19:45-20:00 is in the table
C12_Witness ==
    /\ rev = "bot_server"
    /\ init_runs >= 1
    /\ gen = Idle
    /\ \E r \in slots : r.time_range = <<"1", "9", ":", "4", "5", "-", "2", "0", ":", "0", "0">>

(* -------------------------------- C13 ---------------------------------- *)
\* C13: every generated slot text is "HH:MM-HH:MM" with zero-padded hours
\* 00..23 and minutes in {00, 15, 30, 45}, and its end is 15 minutes after its
\* start modulo 24 hours: the slot that starts at 23:45 ends at 00:00.
C13_EndWrapsAtMidnight ==
    \A t \in CatalogTexts :
        /\ Len(t) = 11
        /\ IsClock(t, 1) /\ t[6] = "-" /\ IsClock(t, 7)
        /\ ClockHour(t, 1) \in 0..23 /\ ClockHour(t, 7) \in 0..23
        /\ ClockMinute(t, 1) \in {0, 15, 30, 45}
        /\ ClockMinute(t, 7) \in {0, 15, 30, 45}
        /\ EndOf(t) = (StartOf(t) + 15) % MinutesPerDay

\* the last window of the day has been generated
C13_Witness ==
    \E r \in time_slots :
        /\ StartOf(r.slot_time) = 23 * 60 + 45
        /\ r.slot_time = <<"2", "3", ":", "4", "5", "-", "0", "0", ":", "0", "0">>

(* -------------------------------- C20 ---------------------------------- *)
\* C20: every book_slot call that returns a failure returns a reason that
\* tells slot-full from already-booked, never a bare False without a reason.
\* (A call that ends in an exception, or that the handler turns down before
\* book_slot for a missing registration, returns nothing and is not judged.)
C20_FailedBookingIsTagged ==
    (ret.op = "book_slot" /\ ~ret.ok /\ ret.msg \notin {TYPE_ERROR, NOT_REGISTERED}) =>
        ret.msg \in {SLOT_FULL, ALREADY_BOOKED}

(* ---------------------- the replies of the queries --------------------- *)
ClockMinutes(clk) == 60 * clk[1] + clk[2]

\* the slot text of a row of a menu or roster reply
RowText(r) == IF rev = "bot" THEN r.slot.slot_time ELSE r.slot.time_range

\* rows come in strictly ascending order of their start times
AscendingStarts(rows) ==
    \A i \in 1..(Len(rows) - 1) :
        StartOf(RowText(rows[i])) < StartOf(RowText(rows[i + 1]))

(* -------------------------------- C14 ---------------------------------- *)
\* at most 8 rows, each starting at or after the clock reading and less than
\* two hours after it, in ascending order of start
WithinTwoHours(rows, clk) ==
    /\ Len(rows) <= 8
    /\ \A i \in 1..Len(rows) :
          /\ StartOf(RowText(rows[i])) >= ClockMinutes(clk)
          /\ StartOf(RowText(rows[i])) < ClockMinutes(clk) + 2 * 60
    /\ AscendingStarts(rows)

\* C14: the available-slots query at clock reading now returns only slots
\* that start at or after now and before now + 2 hours, in ascending order of
\* start, at most 8 of them, for every now of the day (also before the first
\* slot of the day).
C14_AvailableWithinTwoHours ==
    [][/\ \A t \in {TelegramId(1), Onlooker}, d \in Dates, clk \in Clocks :
             (rev = "bot" /\ ret'.op = "show_book_menu" /\ ret'.ok
              /\ BotShowBookMenu(t, d, clk)) => WithinTwoHours(ret'.rows, clk)
       /\ \A clk \in Clocks :
             (rev = "bot_server" /\ ret'.op = "handle_book" /\ SrvHandleBook(clk))
                 => WithinTwoHours(ret'.rows, clk)]_vars

(* -------------------------------- C15 ---------------------------------- *)
\* free / nearly-full / full from the occupied count and the capacity alone
Classification(occupied, capacity) ==
    IF occupied = 0 THEN GREEN
    ELSE IF occupied < capacity THEN YELLOW
    ELSE RED

\* C15: every slot of the slot-selection menu is shown as free (green) when
\* nobody holds it, nearly-full (yellow) when 0 < occupied < capacity, and
\* full (red) when occupied >= capacity; with capacity 3 both occupied 1 and
\* occupied 2 are yellow.
C15_TrafficLight ==
    (ret.op \in {"show_book_menu", "handle_book"} /\ ret.ok) =>
        \A i \in 1..Len(ret.rows) :
            ret.rows[i].icon = Classification(ret.rows[i].slot.booked_count,
                                              ret.rows[i].slot.max_people)

(* -------------------------------- C17 ---------------------------------- *)
\* the reply lists exactly the slots S, in ascending order of start, each
\* with the number of its active bookings
RosterOf(rows, S, Text(_), Id(_), Count(_)) ==
    /\ Len(rows) = Cardinality(S)
    /\ {RowText(rows[i]) : i \in 1..Len(rows)} = {Text(x) : x \in S}
    /\ AscendingStarts(rows)
    /\ \A i \in 1..Len(rows) :
          \E x \in S : /\ Text(x) = RowText(rows[i])
                       /\ Count(rows[i]) = Cardinality(Holders(Id(x)))

\* C17: the all-bookings query returns every slot of the day, in ascending
\* order of start, each with an occupied count equal to the number of active
\* bookings of the slot at the time of the call (cancelled bookings are not
\* counted).
C17_RosterListsEverySlot ==
    [][/\ \A d \in Dates :
             (rev = "bot" /\ ret'.op = "show_all_bookings" /\ BotShowAllBookings(d))
                 => RosterOf(ret'.rows, {ts \in time_slots : ts.date = d},
                             LAMBDA x : x.slot_time, LAMBDA x : x.id,
                             LAMBDA r : r.slot.booked_count)
       /\ \A clk \in Clocks :
             (rev = "bot_server" /\ ret'.op = "handle_all_bookings"
              /\ SrvHandleAllBookings(clk))
                 => RosterOf(ret'.rows, slots,
                             LAMBDA x : x.time_range, LAMBDA x : x.slot_id,
                             LAMBDA r : r.slot.booked)]_vars

(* -------------------------------- C18 ---------------------------------- *)
\* the number of bookings of the slot with text t (bot_server.py)
BookingsOfText(t) ==
    Cardinality({b \in bookings : \E s \in slots : s.slot_id = b.slot_id
                                                   /\ s.time_range = t})

\* C18: the busiest slot of the statistics is a slot with the greatest number
\* of bookings, among such slots the one that starts first, and no busiest
\* slot is reported when there is no booking.
C18_BusiestSlotEarliestOnTie ==
    (ret.op = "handle_statistics") =>
        LET popular_slot == ret.rows[1].popular_slot
        IN  IF bookings = {}
            THEN popular_slot = <<>>
            ELSE /\ Len(popular_slot) = 1
                 /\ popular_slot[1].booking_count
                        = BookingsOfText(popular_slot[1].time_range)
                 /\ \A s \in slots :
                       \/ BookingsOfText(s.time_range) < popular_slot[1].booking_count
                       \/ /\ BookingsOfText(s.time_range) = popular_slot[1].booking_count
                          /\ StartOf(popular_slot[1].time_range) <= StartOf(s.time_range)

(* -------------------------------- C16 ---------------------------------- *)
\* the active bookings the ledger holds for account t
BookingsOfAccount(t) ==
    {b \in ActiveBookings : Registered(t) /\ b.user_id = UserIdOf(t)}

\* the text of slot s in the catalog
SlotTextOf(s) ==
    IF rev = "bot" THEN (CHOOSE r \in time_slots : r.id = s).slot_time
                   ELSE (CHOOSE r \in slots : r.slot_id = s).time_range

\* the slot text of a row of a get_user_bookings reply
BookingRowText(r) == IF rev = "bot" THEN r.slot_time ELSE r.time_range

\* one row for each active booking of account t and no other row, each with
\* the text of the booking's slot, in ascending order of slot start
MyBookings(rows, t) ==
    /\ Len(rows) = Cardinality(BookingsOfAccount(t))
    /\ {rows[i].booking_id : i \in 1..Len(rows)}
           = {BookingId(b) : b \in BookingsOfAccount(t)}
    /\ \A i \in 1..Len(rows) :
          \E b \in BookingsOfAccount(t) :
              /\ BookingId(b) = rows[i].booking_id
              /\ BookingRowText(rows[i]) = SlotTextOf(b.slot_id)
    /\ \A i \in 1..(Len(rows) - 1) :
          StartOf(BookingRowText(rows[i])) <= StartOf(BookingRowText(rows[i + 1]))

\* C16: get_user_bookings returns all and only the caller's active bookings
\* (no cancelled booking, no booking of another user) as they are in the
\* ledger at the time of the call, in ascending order of slot start.
C16_MyActiveBookings ==
    [][\A t \in Viewers :
          (ret'.op = "get_user_bookings"
           /\ (BotGetUserBookings(t) \/ SrvGetUserBookings(t)))
              => MyBookings(ret'.rows, t)]_vars

\* a reply with two bookings, the later booking on the earlier slot, while
\* the ledger holds a booking that is not in the reply
C16_Witness ==
    /\ ret.op = "get_user_bookings"
    /\ Len(ret.rows) = 2
    /\ ret.rows[1].booking_id > ret.rows[2].booking_id
    /\ StartOf(BookingRowText(ret.rows[1])) < StartOf(BookingRowText(ret.rows[2]))
    /\ \E b \in bookings : BookingId(b) \notin {ret.rows[1].booking_id,
                                                ret.rows[2].booking_id}

(* -------------------------------- C19 ---------------------------------- *)
\* the replies of the read-only queries
ViewOps == {"show_book_menu", "show_all_bookings", "get_user_bookings",
            "show_stats", "handle_book", "handle_all_bookings",
            "handle_statistics"}

\* C19: the read-only queries (available slots, roster, a user's bookings,
\* statistics) change no table: users, slots and bookings with their
\* statuses and the id counters are the same after the call; get_user_bookings
\* in particular creates or updates no user.
C19_QueriesAreReadOnly ==
    [][ret'.op \in ViewOps =>
           /\ users' = users
           /\ time_slots' = time_slots /\ slots' = slots /\ slot_seq' = slot_seq
           /\ bookings' = bookings /\ booking_seq' = booking_seq]_vars

\* bot.py: every registered account holds a booking and get_user_bookings has
\* returned no row: it was called for the account that never registered,
\* which is still not in users
C19_Witness ==
    /\ rev = "bot"
    /\ ret.op = "get_user_bookings"
    /\ ret.rows = <<>>
    /\ \A t \in BookingAccounts : BookingsOfAccount(t) # {}
    /\ ~Registered(Onlooker)

(* -------------------------------- C21 ---------------------------------- *)
\* the reason the taxonomy names for a slot id that is not in the catalog
SLOT_NOT_FOUND == "SlotNotFound"

\* slot id s is in the catalog
SlotExists(s) == IF rev = "bot" THEN BotSlotExists(s) ELSE SrvSlotExists(s)

\* C21: book_slot with a slot id that is not in the catalog is rejected with
\* the SlotNotFound reason as a returned value (no exception escapes), and
\* the ledger is unchanged: no booking is created.
C21_UnknownSlotRejected ==
    [][\A t \in TelegramIds, s \in SlotInputs :
          (ret'.op = "book_slot" /\ ~SlotExists(s) /\ Registered(t)
           /\ (BotButtonBook(t, s) \/ SrvButtonBook(t, s)))
              => /\ ret'.ok = FALSE
                 /\ ret'.msg = SLOT_NOT_FOUND
                 /\ bookings' = bookings /\ booking_seq' = booking_seq]_vars

\* the part that the code keeps: the call creates no booking
LedgerKeptOnUnknownSlot ==
    [][\A t \in TelegramIds, s \in SlotInputs :
          (ret'.op = "book_slot" /\ ~SlotExists(s) /\ Registered(t)
           /\ (BotButtonBook(t, s) \/ SrvButtonBook(t, s)))
              => /\ ret'.ok = FALSE
                 /\ ret'.msg \in {TYPE_ERROR, NO_MSG}
                 /\ bookings' = bookings /\ booking_seq' = booking_seq]_vars

(* -------------------------------- C22 ---------------------------------- *)
\* the cancel calls for booking b that returned success
CancelledBy(b) ==
    {p \in Callers : CancelBookingId(p) = b /\ pc[p] = "done" /\ loc[p].ok}

\* C22: double cancellation is impossible: of the overlapping cancel_booking
\* calls for one booking, at most one reports success, in every interleaving
\* of their statements.
C22_NoDoubleCancel ==
    \A b \in {CancelBookingId(p) : p \in Callers} : Cardinality(CancelledBy(b)) <= 1

\* bot.py keeps it: its cancel is a single UPDATE ... AND status = "active"
BotNoDoubleCancel == rev = "bot" => C22_NoDoubleCancel

(* -------------------------------- C23 ---------------------------------- *)
\* slot s has no free seat
SlotIsFull(s) == Cardinality(Holders(s)) >= Capacity(s)

\* C23: bot.py book_slot checks capacity before the duplicate check: on a
\* full slot every caller, a holder of one of its seats included, is refused
\* with SlotFull; AlreadyBooked is the answer exactly when the caller holds a
\* seat and the slot still has a free one.
C23_CapacityBeforeDuplicate ==
    [][\A t \in TelegramIds, s \in SlotInputs :
          (rev = "bot" /\ ret'.op = "book_slot" /\ Registered(t)
               /\ SlotExists(s) /\ BotButtonBook(t, s)) =>
              /\ (ret'.msg = SLOT_FULL) <=> SlotIsFull(s)
              /\ (ret'.msg = ALREADY_BOOKED)
                     <=> (~SlotIsFull(s) /\ Holds(UserIdOf(t), s))]_vars

\* a call on a full slot, all of whose bookings are the holders' own, was
\* refused with SlotFull
C23_Witness ==
    /\ rev = "bot"
    /\ ret.op = "book_slot"
    /\ ~ret.ok
    /\ ret.msg = SLOT_FULL
    /\ \E s \in SlotIds : SlotIsFull(s) /\ Holders(s) = bookings

(* -------------------------------- C24 ---------------------------------- *)
\* the replies of the all-bookings views
RosterOps == {"show_all_bookings", "show_all_bookings_for_button",
              "handle_all_bookings"}

\* the occupied count of a line of an all-bookings view
RosterCount(r) == IF rev = "bot" THEN r.slot.booked_count ELSE r.slot.booked

\* C24: the all-bookings views classify every slot by the three-way rule of
\* the menu in every reachable ledger state: occupied 0 is free, 0 < occupied
\* < capacity nearly-full, occupied >= capacity full; no slot with occupied
\* >= capacity is shown as nearly-full.
C24_RosterTrafficLight ==
    (ret.op \in RosterOps /\ ret.ok) =>
        \A i \in 1..Len(ret.rows) :
            ret.rows[i].icon = Classification(RosterCount(ret.rows[i]),
                                              ret.rows[i].slot.max_people)

\* the views keep the rule wherever occupied <= capacity
RosterTrafficLightUpToCapacity ==
    (ret.op \in RosterOps /\ ret.ok) =>
        \A i \in 1..Len(ret.rows) :
            RosterCount(ret.rows[i]) <= ret.rows[i].slot.max_people =>
                ret.rows[i].icon = Classification(RosterCount(ret.rows[i]),
                                                  ret.rows[i].slot.max_people)

(* -------------------------------- C25 ---------------------------------- *)
\* the full_name of the users row with id u
NameOfUser(u) == (CHOOSE x \in users : x.user_id = u).full_name

\* C25: a successful bot.py book_slot(user, slot) adds exactly one row, an
\* active booking of (user, slot), which is then the user's only active
\* booking of the slot, and returns the slot's time range and the names of
\* exactly the users who held the slot when the call was made: the requester
\* is not among them and neither is a user whose booking is cancelled.
C25_BookedWithCompany ==
    [][\A t \in TelegramIds, s \in SlotInputs :
          (rev = "bot" /\ ret'.op = "book_slot" /\ ret'.ok /\ Registered(t)
               /\ BotButtonBook(t, s)) =>
              /\ bookings \subseteq bookings'
              /\ \E b \in bookings' \ bookings :
                    /\ bookings' \ bookings = {b}
                    /\ b.user_id = UserIdOf(t) /\ b.slot_id = s
                    /\ b.status = "active"
              /\ Cardinality({b \in bookings' : b.user_id = UserIdOf(t)
                                 /\ b.slot_id = s /\ b.status = "active"}) = 1
              /\ ret'.text = SlotTextOf(s)
              /\ ret'.names = {NameOfUser(h.user_id) : h \in Holders(s)}
              /\ NameOfUser(UserIdOf(t)) \notin ret'.names]_vars

\* a booking was made in company, while a user whose booking of that slot is
\* cancelled is not named
C25_Witness ==
    /\ rev = "bot"
    /\ ret.op = "book_slot"
    /\ ret.ok
    /\ ret.names # {}
    /\ \E c \in bookings :
          /\ c.status = "cancelled"
          /\ SlotTextOf(c.slot_id) = ret.text
          /\ ~Holds(c.user_id, c.slot_id)
          /\ NameOfUser(c.user_id) \notin ret.names

(* -------------------------------- C26 ---------------------------------- *)
\* the telegram accounts that have a users row
RegisteredAccounts == {u.telegram_id : u \in users}

\* C26: in bot.py the users table never has more than 50 rows after a
\* get_or_create_user call: with 50 rows, a call for an unknown telegram_id
\* returns None and inserts nothing; a call for a registered telegram_id
\* returns that user's id and adds no row; a call without full_name for an
\* unknown telegram_id creates no user.
C26_UserLimit ==
    [][\A t \in CallingAccounts : \A n \in NameInputs(t) :
          (ret'.op = "get_or_create_user" /\ BotGetOrCreateUserCall(t, n)) =>
              /\ Cardinality(users') <= USER_LIMIT
              /\ (Cardinality(users) = USER_LIMIT /\ ~Registered(t)) =>
                     (ret'.user_id = None /\ users' = users)
              /\ Registered(t) =>
                     /\ ret'.user_id = UserIdOf(t)
                     /\ RegisteredAccounts' = RegisteredAccounts
                     /\ Cardinality(users') = Cardinality(users)
              /\ (n = NoText /\ ~Registered(t)) =>
                     (ret'.user_id = None /\ users' = users)]_vars

\* the table is at the limit, an account is not in it, and the last call
\* returned None
C26_Witness ==
    /\ ret.op = "get_or_create_user"
    /\ ret.user_id = None
    /\ Cardinality(users) = USER_LIMIT
    /\ CallingAccounts \ RegisteredAccounts # {}

(* -------------------------------- C27 ---------------------------------- *)
\* the slots that no booking names
UnbookedSlots == {r \in slots : \A b \in bookings : b.slot_id # r.slot_id}

\* C27: the free-slot figure of handle_statistics, total_slots minus
\* total_bookings, is never negative and is the number of slots that have no
\* booking.
C27_FreeSlotFigure ==
    [][(ret'.op = "handle_statistics" /\ SrvHandleStatistics) =>
           /\ ret'.rows[1].free >= 0
           /\ ret'.rows[1].free = Cardinality(UnbookedSlots)]_vars

\* the figure is right while no slot has two bookings
FreeSlotFigureOneBookingPerSlot ==
    [][(ret'.op = "handle_statistics" /\ SrvHandleStatistics
        /\ \A a, b \in bookings : a.slot_id = b.slot_id => a = b) =>
           /\ ret'.rows[1].free >= 0
           /\ ret'.rows[1].free = Cardinality(UnbookedSlots)]_vars

(* -------------------------------- C28 ---------------------------------- *)
\* the day on which init_db ran
InitDay == MaxOf({ts.date : ts \in time_slots})

\* C28: while the bot.py process keeps running, the catalog has slots for
\* the current date: whatever the date of the call, on the day of init_db or
\* after it, get_next_2_hours_slots finds slots of that date.
C28_SlotsForCurrentDate ==
    [][\A t \in BookingAccounts, d \in Dates, clk \in Clocks :
          (rev = "bot" /\ ret'.op = "show_book_menu" /\ ret'.ok
               /\ BotShowBookMenu(t, d, clk)) =>
              /\ \E ts \in time_slots : ts.date = d
              /\ Len(ret'.rows) > 0]_vars

\* on the day of init_db the slots are found
SlotsForInitDay ==
    [][\A t \in BookingAccounts, clk \in Clocks :
          (rev = "bot" /\ ret'.op = "show_book_menu" /\ ret'.ok
               /\ BotShowBookMenu(t, InitDay, clk)) =>
              /\ \E ts \in time_slots : ts.date = InitDay
              /\ Len(ret'.rows) > 0]_vars

(* -------------------------------- C29 ---------------------------------- *)
\* C29: after any sequence of KeepAliveSystem start() and stop() calls at
\* most one _ping_loop thread is executing: start() while running is a
\* no-op, and a start() after a stop() never leaves the earlier loop thread
\* running beside the new one.
C29_OneLoopThread == Cardinality(LiveLoops) <= 1

\* the part that the code keeps: start() while running changes nothing
StartWhileRunningIsNoOp ==
    [][(is_running /\ KaStart) => UNCHANGED kavars]_vars

(* -------------------------------- C30 ---------------------------------- *)
\* C30: once stop() has been called, unless start() is called again, every
\* _ping_loop thread eventually exits, whether it was pinging, sleeping
\* between pings or in its error back-off; and with no loop thread left
\* ping_count no longer changes.
C30_LoopEndsAfterStop ==
    /\ (~is_running) ~> (is_running \/ LiveLoops = {})
    /\ [][(~is_running /\ LiveLoops = {} /\ ~is_running')
              => ping_count' = ping_count]_vars

\* stop() has returned, a loop thread that pinged has exited and none is left
C30_Witness ==
    /\ ret.op = "stop"
    /\ caller = "idle"
    /\ ~is_running
    /\ ping_count >= 1
    /\ LiveLoops = {}
    /\ \E p \in Threads : loop[p] = "exited"

====
